---- MODULE Spec2Model ----
(***************************************************************************)
(* Model of the EducationPosts crawler                                     *)
(* (src/src/scrapers/scraper_educationposts.py).                           *)
(*                                                                         *)
(* Text is modelled as a sequence of one-character strings, so that        *)
(* lower-casing, substring search, splitting and the e-mail regular        *)
(* expression are computed on characters, as the code computes them.       *)
(***************************************************************************)
EXTENDS Integers, Sequences, FiniteSets, TLC

VARIABLES
    probe,            \* the function under test, its argument and its result
    ctor,             \* the constructor's arguments
    env,              \* the credentials of the environment
    username,         \* self.username
    password,         \* self.password
    self_max_pages,   \* self.max_pages
    cookies,          \* self.cookies
    is_logged_in,     \* self.is_logged_in
    pc,               \* where fetch_all stands
    max_pages,        \* fetch_all's arguments
    login_first,
    limit,
    total_pages,      \* fetch_all's locals
    pages_to_process,
    page_num,
    basic,
    detailed_offers,
    idx,
    ret,              \* the list fetch_all returned
    reqs,             \* the requests issued so far, in order
    cur,              \* the offer _offer_detail is completing from secondary pages
    login_calls,      \* the number of calls of login so far
    login_ret,        \* what the last call of login returned
    max_workers,      \* the constructor's max_workers and safe_mode
    safe_mode,
    sem,              \* the free permits of self.sem
    tasks,            \* the coroutines running side by side on the instance
    is_scraping,      \* the bot's self.is_scraping
    runs              \* the invocations of the bot's run_scraping_process

config == <<ctor, env, username, password, self_max_pages>>
session == <<cookies, is_logged_in>>
call == <<max_pages, login_first, limit>>
crawl == <<config, session, pc, call, total_pages, pages_to_process, page_num, basic,
           detailed_offers, idx, ret, reqs, cur, login_calls, login_ret>>
pool == <<max_workers, safe_mode, sem, tasks>>
bot == <<is_scraping, runs>>
vars == <<probe, crawl, pool, bot>>

(***************************************************************************)
(* Bounds of the model.                                                    *)
(***************************************************************************)
\* longest vacancy label, in words
MaxWords == 4
\* longest e-mail text, in chunks
MaxChunks == 4
\* most list items in a pagination control
MaxItems == 3
\* most offers collected by the listing phase of one crawl
MaxOffers == 2
\* most calls of login before fetch_all
MaxLogins == 1
\* rows of a page drawn for a function that is applied to one page
MaxRows == 2
\* coroutines of one instance running side by side
MaxTasks == 3
\* users registered with the bot
MaxUsers == 2

(***************************************************************************)
(* Python values.                                                          *)
(***************************************************************************)
\* Python's None, distinct from every character sequence
None == <<"\\None">>

\* truthiness of an optional string: None and "" are falsy
Truthy(x) == x # None /\ x # <<>>

\* the element of a singleton set; Only({F(x) : x \in {e}}) is F(e) with e
\* evaluated once, as an assignment x = e followed by F(x)
Only(S) == CHOOSE x \in S : TRUE

(***************************************************************************)
(* Characters and strings.                                                 *)
(***************************************************************************)
UpperSeq == <<"A","B","C","D","E","F","G","H","I","J","K","L","M",
              "N","O","P","Q","R","S","T","U","V","W","X","Y","Z">>
LowerSeq == <<"a","b","c","d","e","f","g","h","i","j","k","l","m",
              "n","o","p","q","r","s","t","u","v","w","x","y","z">>
UpperSet == {UpperSeq[i] : i \in 1..26}
LowerSet == {LowerSeq[i] : i \in 1..26}
Letters == UpperSet \cup LowerSet
Digits == {"0","1","2","3","4","5","6","7","8","9"}
Spaces == {" ", "\t", "\n"}

LowerMap == [c \in UpperSet |-> LowerSeq[CHOOSE i \in 1..26 : UpperSeq[i] = c]]

\* str.lower()
Lower(s) == [i \in 1..Len(s) |-> IF s[i] \in UpperSet THEN LowerMap[s[i]] ELSE s[i]]

\* the Python test `sub in s`
Contains(s, sub) ==
    \E i \in 0..(Len(s) - Len(sub)) : SubSeq(s, i + 1, i + Len(sub)) = sub

\* str.strip()
Strip(s) ==
    IF \A i \in 1..Len(s) : s[i] \in Spaces THEN <<>>
    ELSE LET a == CHOOSE i \in 1..Len(s) :
                      s[i] \notin Spaces /\ \A k \in 1..(i - 1) : s[k] \in Spaces
             b == CHOOSE i \in 1..Len(s) :
                      s[i] \notin Spaces /\ \A k \in (i + 1)..Len(s) : s[k] \in Spaces
         IN SubSeq(s, a, b)

\* s.split(sep)[0]: the text before the first occurrence of sep
SplitHead(s, sep) ==
    IF ~Contains(s, sep) THEN s
    ELSE LET i == CHOOSE k \in 0..(Len(s) - Len(sep)) :
                      /\ SubSeq(s, k + 1, k + Len(sep)) = sep
                      /\ \A j \in 0..(k - 1) : SubSeq(s, j + 1, j + Len(sep)) # sep
         IN SubSeq(s, 1, i)

\* the concatenation of a sequence of strings, sep between them
RECURSIVE Join(_, _)
Join(ws, sep) ==
    IF ws = <<>> THEN <<>>
    ELSE IF Len(ws) = 1 THEN ws[1]
    ELSE ws[1] \o sep \o Join(Tail(ws), sep)

\* all sequences over S of length 0..n
SeqsUpTo(S, n) == UNION {[1..k -> S] : k \in 0..n}

(***************************************************************************)
(* String literals of the source.                                          *)
(***************************************************************************)
S_teacher == <<"t","e","a","c","h","e","r">>
S_principal_teacher == <<"p","r","i","n","c","i","p","a","l"," ","t","e","a","c","h","e","r">>
S_special_school == <<"s","p","e","c","i","a","l"," ","s","c","h","o","o","l">>
S_placement == <<"p","l","a","c","e","m","e","n","t">>
S_special_school_teacher_placement == S_special_school \o <<" ">> \o S_teacher \o <<" ">> \o S_placement
S_Website == <<"W","e","b","s","i","t","e">>

BAD_MAIL == << <<"n","o","r","e","p","l","y">>,
               <<"n","o","-","r","e","p","l","y">>,
               <<"w","o","r","d","p","r","e","s","s">>,
               <<"e","x","a","m","p","l","e",".","c","o","m">>,
               <<"e","d","u","c","a","t","i","o","n","p","o","s","t","s",".","i","e">>,
               <<"t","e","a","c","h","i","n","g","c","o","u","n","c","i","l",".","i","e">> >>

\* any(b in m.lower() for b in BAD_MAIL)
HasBadMail(m) == \E k \in 1..Len(BAD_MAIL) : Contains(Lower(m), BAD_MAIL[k])

(***************************************************************************)
(* EMAIL_RE = \b[A-Za-z0-9._%+-]+@[A-Za-z0-9.-]+\.[A-Za-z]{2,}\b           *)
(***************************************************************************)
IsWordCh(c) == c \in Letters \cup Digits \cup {"_"}
IsLocalCh(c) == c \in Letters \cup Digits \cup {".", "_", "%", "+", "-"}
IsDomainCh(c) == c \in Letters \cup Digits \cup {".", "-"}
IsLetterCh(c) == c \in Letters

WordAt(s, i) == i >= 1 /\ i <= Len(s) /\ IsWordCh(s[i])

\* \b between the characters i-1 and i
Boundary(s, i) == WordAt(s, i - 1) # WordAt(s, i)

\* the end of the longest run of characters of a class that starts at i
\* (i - 1 when the run is empty)
RunEnd(s, i, InClass(_)) ==
    CHOOSE j \in (i - 1)..Len(s) :
        /\ \A k \in i..j : InClass(s[k])
        /\ (j = Len(s) \/ ~InClass(s[j + 1]))

\* the dots of the domain run ds..de that can precede the top-level domain:
\* at least one domain character before, two or more letters after, then \b
TldDots(s, ds, de) ==
    {p \in (ds + 1)..de :
        /\ s[p] = "."
        /\ RunEnd(s, p + 1, IsLetterCh) >= p + 2
        /\ ~WordAt(s, RunEnd(s, p + 1, IsLetterCh) + 1)}

\* the index of the last character of the match that starts at i, 0 if the
\* expression does not match there.  The greedy quantifiers fix the local
\* part (the whole run up to "@") and prefer the rightmost dot.
MatchEnd(s, i) ==
    IF ~(Boundary(s, i) /\ IsLocalCh(s[i])) THEN 0
    ELSE LET le == RunEnd(s, i, IsLocalCh) IN
         IF ~(le + 1 <= Len(s) /\ s[le + 1] = "@") THEN 0
         ELSE LET ds == le + 2
                  de == RunEnd(s, ds, IsDomainCh)
                  dots == TldDots(s, ds, de)
              IN IF dots = {} THEN 0
                 ELSE LET p == CHOOSE q \in dots : \A r \in dots : r <= q
                      IN RunEnd(s, p + 1, IsLetterCh)

\* EMAIL_RE.findall(s) from position i: the non-overlapping matches, left to right
RECURSIVE FindAllFrom(_, _)
FindAllFrom(s, i) ==
    IF i > Len(s) THEN <<>>
    ELSE LET e == MatchEnd(s, i) IN
         IF e > 0 THEN <<SubSeq(s, i, e)>> \o FindAllFrom(s, e + 1)
         ELSE FindAllFrom(s, i + 1)

FindAll(s) == FindAllFrom(s, 1)

\* re.fullmatch of EMAIL_RE: s is one syntactically valid address
IsEmail(s) == Len(s) > 0 /\ MatchEnd(s, 1) = Len(s)

(***************************************************************************)
(* first_valid_email                                                       *)
(***************************************************************************)
\* email = m.strip(), cut before the first "Website"
CutWebsite(m) ==
    Only({IF Contains(email, S_Website) THEN Strip(SplitHead(email, S_Website)) ELSE email
            : email \in {Strip(m)}})

\* the loop over the matches ms: the first without a blocklisted marker
RECURSIVE FirstAccepted(_)
FirstAccepted(ms) ==
    IF ms = <<>> THEN None
    ELSE IF HasBadMail(Head(ms)) THEN FirstAccepted(Tail(ms))
    ELSE CutWebsite(Head(ms))

\* first_valid_email without the blocklist
first_valid_email_NoBlocklist(text) ==
    Only({IF ms = <<>> THEN None ELSE CutWebsite(Head(ms))
            : ms \in {FindAll(IF text = None THEN <<>> ELSE text)}})

first_valid_email(text) ==
    Only({FirstAccepted(ms) : ms \in {FindAll(IF text = None THEN <<>> ELSE text)}})

(***************************************************************************)
(* is_valid_vacancy                                                        *)
(***************************************************************************)
\* is_valid_vacancy without the final "placement" exclusion
is_valid_vacancy_NoPlacementCheck(vacancy_name) ==
    IF ~Truthy(vacancy_name) THEN FALSE
    ELSE LET vacancy_lower == Lower(vacancy_name) IN
         IF ~Contains(vacancy_lower, S_teacher) THEN FALSE
         ELSE IF Contains(vacancy_lower, S_principal_teacher) THEN FALSE
         ELSE IF Contains(vacancy_lower, S_special_school_teacher_placement) THEN FALSE
         ELSE IF Contains(vacancy_lower, S_special_school)
                 /\ Contains(vacancy_lower, S_placement) THEN FALSE
         ELSE TRUE

is_valid_vacancy(vacancy_name) ==
    IF ~Truthy(vacancy_name) THEN FALSE
    ELSE LET vacancy_lower == Lower(vacancy_name) IN
         IF ~Contains(vacancy_lower, S_teacher) THEN FALSE
         ELSE IF Contains(vacancy_lower, S_principal_teacher) THEN FALSE
         ELSE IF Contains(vacancy_lower, S_special_school_teacher_placement) THEN FALSE
         ELSE IF Contains(vacancy_lower, S_special_school)
                 /\ Contains(vacancy_lower, S_placement) THEN FALSE
         ELSE IF Contains(vacancy_lower, S_placement)
                 /\ Contains(vacancy_lower, S_teacher) THEN FALSE
         ELSE TRUE

(***************************************************************************)
(* Optional integers (max_pages, limit): the empty set is None.            *)
(***************************************************************************)
NoneInt == {}
Some(n) == {n}
Val(o) == CHOOSE n \in o : TRUE
\* truthiness of an optional integer: None and 0 are falsy
TruthyInt(o) == o # NoneInt /\ Val(o) # 0


\* _offer_detail is not waiting for a secondary page
NoOffer == [links |-> <<>>]

\* the permits __init__ gives self.sem
PoolSize(workers, safe) == IF safe THEN (IF workers < 1 THEN workers ELSE 1) ELSE workers

\* EducationPosts() with its default max_workers, and no coroutine running
\* beside the caller
NoTasks ==
    /\ max_workers = 3
    /\ safe_mode = FALSE
    /\ sem = PoolSize(3, FALSE)
    /\ tasks = <<>>

\* fetch_all never starts
NoFetchAll ==
    /\ ctor = [username |-> None, password |-> None, max_pages |-> NoneInt]
    /\ env = [username |-> None, password |-> None]
    /\ username = None
    /\ password = None
    /\ self_max_pages = NoneInt
    /\ cookies = {}
    /\ is_logged_in = FALSE
    /\ pc = "probe"
    /\ max_pages = NoneInt
    /\ login_first = TRUE
    /\ limit = NoneInt
    /\ total_pages = 0
    /\ pages_to_process = 0
    /\ page_num = 0
    /\ basic = <<>>
    /\ detailed_offers = <<>>
    /\ idx = 0
    /\ ret = <<>>
    /\ reqs = <<>>
    /\ cur = NoOffer
    /\ login_calls = 0
    /\ login_ret = FALSE

\* the bot after __init__, with no request for a crawl
NoBot ==
    /\ is_scraping = FALSE
    /\ runs = <<>>

\* a crawl never starts: the state of the scraper while a function is probed
NoCrawl == NoTasks /\ NoFetchAll /\ NoBot

(***************************************************************************)
(* Vacancy labels: up to MaxWords words of the site's vocabulary, joined   *)
(* by single spaces, and the absent label.                                 *)
(***************************************************************************)
W_Teacher == <<"T","e","a","c","h","e","r">>
W_Principal == <<"P","r","i","n","c","i","p","a","l">>
W_Special == <<"S","p","e","c","i","a","l">>
W_School == <<"S","c","h","o","o","l">>
W_Placement == <<"P","l","a","c","e","m","e","n","t">>
W_Deputy == <<"D","e","p","u","t","y">>
W_Mainstream == <<"M","a","i","n","s","t","r","e","a","m">>
W_Class == <<"C","l","a","s","s">>

LabelWords == {W_Teacher, W_Principal, W_Special, W_School, W_Placement,
               W_Deputy, W_Mainstream, W_Class}

Labels == {Join(ws, <<" ">>) : ws \in SeqsUpTo(LabelWords, MaxWords)} \cup {None}

L_SpecialSchoolTeacherPlacement == Join(<<W_Special, W_School, W_Teacher, W_Placement>>, <<" ">>)
L_DeputyPrincipalTeacher == Join(<<W_Deputy, W_Principal, W_Teacher>>, <<" ">>)
L_MainstreamClassTeacher == Join(<<W_Mainstream, W_Class, W_Teacher>>, <<" ">>)

(***************************************************************************)
(* The filter applied to one label.                                        *)
(***************************************************************************)
InitVacancy == 
    /\ \E l \in Labels : probe = [arg |-> l, ret |-> None, done |-> FALSE]
    /\ NoCrawl

CallIsValidVacancy ==
    /\ ~probe.done
    /\ probe' = [probe EXCEPT !.ret = is_valid_vacancy(probe.arg), !.done = TRUE]
    /\ UNCHANGED <<crawl, pool, bot>>

NextVacancy == CallIsValidVacancy

SpecVacancy == InitVacancy /\ [][NextVacancy]_vars

\* C1: is_valid_vacancy(L) holds exactly when L, lower-cased, contains
\* "teacher", does not contain "principal teacher", does not contain both
\* "special school" and "placement", and does not contain both "placement"
\* and "teacher"; "Special School Teacher Placement" and "Deputy Principal
\* Teacher" are rejected and "Mainstream Class Teacher" is accepted.
VacancyRule(l) ==
    LET t == IF l = None THEN <<>> ELSE Lower(l) IN
    /\ Contains(t, S_teacher)
    /\ ~Contains(t, S_principal_teacher)
    /\ ~(Contains(t, S_special_school) /\ Contains(t, S_placement))
    /\ ~(Contains(t, S_placement) /\ Contains(t, S_teacher))

K_info == <<"i","n","f","o">>
K_noreply == <<"n","o","r","e","p","l","y">>
K_at_school_ie == <<"@","s","c","h","o","o","l",".","i","e">>
K_at_example_com == <<"@","E","x","a","m","p","l","e",".","c","o","m">>
K_info_at_school_ie == K_info \o K_at_school_ie
K_space == <<" ">>

EmailChunks == {K_info, K_noreply, S_Website, K_at_school_ie, K_at_example_com,
                K_info_at_school_ie, K_space}

EmailTexts == {Join(cs, <<>>) : cs \in SeqsUpTo(EmailChunks, MaxChunks)} \cup {None}

(***************************************************************************)
(* The e-mail validator applied to one text.                               *)
(***************************************************************************)
InitEmail == 
    /\ \E t \in EmailTexts : probe = [arg |-> t, ret |-> None, done |-> FALSE]
    /\ NoCrawl

CallFirstValidEmail ==
    /\ ~probe.done
    /\ probe' = [probe EXCEPT !.ret = first_valid_email(probe.arg), !.done = TRUE]
    /\ UNCHANGED <<crawl, pool, bot>>

NextEmail == CallFirstValidEmail

SpecEmail == InitEmail /\ [][NextEmail]_vars

\* the matches of the scan that carry no blocklisted marker
GoodMatches(t) ==
    LET ms == FindAll(IF t = None THEN <<>> ELSE t)
    IN SelectSeq(ms, LAMBDA m : ~HasBadMail(m))

\* C2: first_valid_email returns null or a syntactically valid address that
\* occurs in the text and carries no blocklisted marker; null when the scan
\* finds no valid non-blocklisted address, otherwise the first one found,
\* without its glued-on trailing word.
C2_FirstValidEmailContract ==
    probe.done =>
        /\ \/ probe.ret = None
           \/ /\ IsEmail(probe.ret)
              /\ Contains(probe.arg, probe.ret)
              /\ ~HasBadMail(probe.ret)
        /\ (GoodMatches(probe.arg) = <<>> => probe.ret = None)
        /\ (GoodMatches(probe.arg) # <<>> =>
               /\ probe.ret # None
               /\ SubSeq(GoodMatches(probe.arg)[1], 1, Len(probe.ret)) = probe.ret)

(***************************************************************************)
(* int(): an optional sign followed by one or more digits; anything else   *)
(* raises ValueError.                                                      *)
(***************************************************************************)
DigitSeq == <<"0","1","2","3","4","5","6","7","8","9">>
DigitVal(c) == (CHOOSE i \in 1..10 : DigitSeq[i] = c) - 1

RECURSIVE DigitsVal(_)
DigitsVal(s) ==
    IF s = <<>> THEN 0
    ELSE 10 * DigitsVal(SubSeq(s, 1, Len(s) - 1)) + DigitVal(s[Len(s)])

ParseInt(s) ==
    LET t == Strip(s)
        signed == Len(t) > 0 /\ t[1] \in {"-", "+"}
        body == IF signed THEN Tail(t) ELSE t
    IN IF body = <<>> \/ \E i \in 1..Len(body) : body[i] \notin Digits
       THEN [ok |-> FALSE, val |-> 0]
       ELSE [ok |-> TRUE,
             val |-> IF signed /\ t[1] = "-" THEN 0 - DigitsVal(body) ELSE DigitsVal(body)]

\* the largest element of a non-empty set of integers
Max(S) == CHOOSE m \in S : \A x \in S : x <= m

(***************************************************************************)
(* _get_pages.  The response to the page-1 request is an exception, a      *)
(* status without usable body, or a document whose pagination control      *)
(* (the field pager, when present) is a list of items, each with or        *)
(* without a link that carries a data-page attribute.                      *)
(***************************************************************************)
\* a list item without a[data-page]
NoLink == None

PageAttrs == {<<"0">>, <<"1">>, <<"2">>, <<"3">>, <<"-","1">>, <<"x">>}

Pagers == SeqsUpTo(PageAttrs \cup {NoLink}, MaxItems)

PageOneResponses ==
    {[kind |-> "exception"]}
    \cup {[kind |-> "status", status |-> st] : st \in {404, 500}}
    \cup {[kind |-> "html", status |-> 200]}
    \cup {[kind |-> "html", status |-> 200, pager |-> pg] : pg \in Pagers}

\* the document has a .pagination element
HasPager(r) == "pager" \in DOMAIN r

\* the data-page attributes of .pagination a[data-page], in document order
PagerLinks(pg) == SelectSeq(pg, LAMBDA it : it # NoLink)

_get_pages(r) ==
    IF r.kind = "exception" THEN 1
    ELSE IF r.status # 200 THEN 1
    ELSE IF ~HasPager(r) THEN 1
    ELSE LET pg == r.pager
             links == PagerLinks(pg)
         IN IF pg # <<>> /\ pg[Len(pg)] # NoLink
            THEN \* .pagination li:last-child a[data-page]
                 IF ParseInt(pg[Len(pg)]).ok THEN ParseInt(pg[Len(pg)]).val ELSE 1
            ELSE IF links # <<>>
            THEN IF \E i \in 1..Len(links) : ~ParseInt(links[i]).ok THEN 1
                 ELSE Max({ParseInt(links[i]).val : i \in 1..Len(links)})
            ELSE 1

(***************************************************************************)
(* Pagination discovery applied to one page-1 response.                    *)
(***************************************************************************)
InitPages == 
    /\ \E r \in PageOneResponses : probe = [arg |-> r, ret |-> None, done |-> FALSE]
    /\ NoCrawl

CallGetPages ==
    /\ ~probe.done
    /\ probe' = [probe EXCEPT !.ret = _get_pages(probe.arg), !.done = TRUE]
    /\ UNCHANGED <<crawl, pool, bot>>

NextPages == CallGetPages

SpecPages == InitPages /\ [][NextPages]_vars

\* C4: pagination discovery returns an integer >= 1 for every outcome of the
\* page-1 request, whatever the data-page attributes are.
C4_PagesAtLeastOne == probe.done => probe.ret >= 1

\* the control has link markers and each carries a page index
HasIndexedLinks(r) ==
    /\ r.kind = "html"
    /\ HasPager(r)
    /\ PagerLinks(r.pager) # <<>>
    /\ \A i \in 1..Len(PagerLinks(r.pager)) : ParseInt(PagerLinks(r.pager)[i]).ok

\* C5: with link markers carrying a page index, discovery returns the
\* maximum index among all markers, whatever their order; with the control
\* absent or the fetch failed it returns 1.
C5_PagesIsMaxIndex ==
    probe.done =>
        /\ (HasIndexedLinks(probe.arg) =>
               probe.ret = Max({ParseInt(PagerLinks(probe.arg.pager)[i]).val :
                                   i \in 1..Len(PagerLinks(probe.arg.pager))}))
        /\ (probe.arg.kind # "html" => probe.ret = 1)
        /\ (probe.arg.kind = "html" /\ ~HasPager(probe.arg) => probe.ret = 1)
\* dict.get(key, default)
Get(d, key, default) == IF key \in DOMAIN d THEN d[key] ELSE default

(***************************************************************************)
(* More string literals of the source.                                     *)
(***************************************************************************)
S_gaelscoil == <<"g","a","e","l","s","c","o","i","l">>
S_Teacher == <<"T","e","a","c","h","e","r">>
S_school_name == <<"s","c","h","o","o","l"," ","n","a","m","e">>
S_type_of_vacancy == <<"t","y","p","e"," ","o","f"," ","v","a","c","a","n","c","y">>
S_status == <<"s","t","a","t","u","s">>
S_county == <<"c","o","u","n","t","y">>
BASE == "https://www.educationposts.ie"
LOGIN_URL == "https://www.educationposts.ie/auth/login"

\* urljoin(base, href) for the site-relative hrefs of the listing
urljoin(base, href) == [base |-> base, path |-> href]

\* BASE + LIST.format(page = page, ...): the URL of a listing page, the same
\* for pagination discovery and for the listing extractor
ListUrl(page) == [base |-> BASE, page |-> page]

\* urljoin(offer["url"], link) for a link that is a path of the site
LinkUrl(link) == [base |-> BASE, href |-> link]

(***************************************************************************)
(* __init__: the credentials come from the environment and are overridden  *)
(* by truthy constructor arguments; max_pages is stored as given.          *)
(***************************************************************************)
C_user == <<"u","s","e","r","@","m","a","i","l",".","i","e">>
C_pass == <<"s","e","c","r","e","t">>
E_user == <<"e","n","v","@","m","a","i","l",".","i","e">>
E_pass == <<"e","n","v","s","e","c","r","e","t">>

\* constructor arguments username, password
CtorCredentials == {[username |-> None, password |-> None],
                    [username |-> C_user, password |-> None],
                    [username |-> C_user, password |-> C_pass]}

\* EDUCATIONPOSTS_USERNAME, EDUCATIONPOSTS_PASSWORD
EnvCredentials == {[username |-> None, password |-> None],
                   [username |-> E_user, password |-> E_pass]}

CtorMaxPages == {NoneInt, Some(1)}

\* the constructions followed: the environment gives credentials where the
\* constructor gives none, and a max_pages is given to the constructor with
\* no credentials anywhere
Constructed(c, e, m) ==
    /\ c.username # None => e.username = None
    /\ m # NoneInt => c.username = None /\ e.username = None

init_username(c, e) == IF Truthy(c.username) THEN c.username ELSE e.username
init_password(c, e) == IF Truthy(c.password) THEN c.password ELSE e.password

(***************************************************************************)
(* login                                                                   *)
(***************************************************************************)
SessionA == {<<"PHPSESSID", "a">>}
SessionB == {<<"PHPSESSID", "b">>}
\* cookies=None on a request
NoCookies == {None}

LoginResponses ==
    {[kind |-> "exception"],
     [kind |-> "response", status |-> 301, cookies |-> SessionB],
     [kind |-> "response", status |-> 302, cookies |-> SessionA]}

\* login taking every redirect-class status as success
LoginOk_AnyRedirect(r) == r.kind = "response" /\ r.status \in 300..399

\* the status that login takes as success
LoginOk(r) == r.kind = "response" /\ r.status = 302

HasCredentials == Truthy(username) /\ Truthy(password)

\* the body of login, called by via, for the response r to its POST: the
\* return value, the session state it leaves and the request it sent (with
\* the status and the cookies of the response, 0 and none for an exception)
login(r, via) ==
    IF ~HasCredentials
    THEN [ret |-> FALSE, cookies |-> cookies, is_logged_in |-> is_logged_in, posts |-> <<>>]
    ELSE [ret |-> LoginOk(r),
          cookies |-> IF LoginOk(r) THEN r.cookies ELSE cookies,
          is_logged_in |-> IF LoginOk(r) THEN TRUE ELSE is_logged_in,
          posts |-> <<[kind |-> "login", target |-> LOGIN_URL, cookies |-> NoCookies,
                       via |-> via, allow_redirects |-> FALSE,
                       status |-> IF r.kind = "response" THEN r.status ELSE 0,
                       resp_cookies |-> IF r.kind = "response" THEN r.cookies ELSE {}]>>]

(***************************************************************************)
(* Listing pages.  A document has a desktop table (rows with cells, a      *)
(* data-href attribute and/or a link in the second cell) and/or a mobile   *)
(* table (rows with a data-href and label/value pairs); a field that is    *)
(* absent from a record is an element or attribute absent from the page.   *)
(***************************************************************************)
T_StMary == <<"S","t"," ","M","a","r","y"," ","N","S">>
T_Gael == <<"G","a","e","l","s","c","o","i","l"," ","E","o","i","n">>
T_Mainstream == <<"M","a","i","n","s","t","r","e","a","m"," ","C","l","a","s","s"," ","T","e","a","c","h","e","r">>
T_SpecialEd == <<" ","S","p","e","c","i","a","l"," ","E","d","u","c","a","t","i","o","n"," ","T","e","a","c","h","e","r"," ">>
T_Principal == <<"P","r","i","n","c","i","p","a","l"," ","T","e","a","c","h","e","r">>
T_Sna == <<"S","p","e","c","i","a","l"," ","N","e","e","d","s"," ","A","s","s","i","s","t","a","n","t">>
T_PostTeacher == <<"P","o","s","t",":"," ","T","e","a","c","h","e","r"," ","o","f"," ","M","a","t","h","s">>
T_Open == <<"O","p","e","n">>
T_Dublin == <<"D","u","b","l","i","n">>
T_Date == <<"0","1","/","0","9">>

Cells(id, school, vacancy) == <<id, school, vacancy, T_Open, T_Dublin, T_Date>>

\* rows of the desktop table
RowPlain == [data_href |-> "/p/1", tds |-> Cells(<<"1","0","1">>, T_StMary, T_Mainstream)]
RowAnchor == [link_href |-> "/p/2", tds |-> Cells(<<"1","0","2">>, T_StMary, T_SpecialEd)]
RowGael == [data_href |-> "/p/3", tds |-> Cells(<<"1","0","3">>, T_Gael, T_Mainstream)]
RowPrincipal == [data_href |-> "/p/4", tds |-> Cells(<<"1","0","4">>, T_StMary, T_Principal)]
RowShort == [data_href |-> "/p/5", tds |-> <<<<"1","0","5">>, T_StMary, T_Mainstream>>]
RowNoUrl == [tds |-> Cells(<<"1","0","6">>, T_StMary, T_Mainstream)]
RowEmptyHref == [data_href |-> "", link_href |-> "/p/7", tds |-> Cells(<<"1","0","7">>, T_StMary, T_Mainstream)]
RowResource == [data_href |-> "/p/6", link_href |-> "/p/7", tds |-> Cells(<<"1","0","9">>, T_StMary, <<"R","e","s","o","u","r","c","e"," ","T","e","a","c","h","e","r">>)]
RowBare == [link_href |-> "/p/9", tds |-> Cells(<<"1","1","0">>, T_StMary, <<"T","E","A","C","H","E","R">>)]
RowNoLabel == [data_href |-> "/p/8", tds |-> Cells(<<"1","0","8">>, T_PostTeacher, <<>>)]

\* rows of the mobile table
MobPlain == [data_href |-> "/p/11", advertId |-> <<"1","1","1">>, card |-> TRUE, headerData |-> T_Date,
             rows |-> <<[lab |-> <<"S","c","h","o","o","l"," ","N","a","m","e",":">>, val |-> T_StMary],
                        [lab |-> <<"T","y","p","e"," ","o","f"," ","V","a","c","a","n","c","y",":">>, val |-> T_Mainstream],
                        [lab |-> <<"S","t","a","t","u","s",":">>, val |-> T_Open],
                        [lab |-> <<"C","o","u","n","t","y",":">>, val |-> T_Dublin]>>]
MobGael == [data_href |-> "/p/12", card |-> TRUE,
            rows |-> <<[lab |-> <<"S","c","h","o","o","l"," ","N","a","m","e",":">>, val |-> T_Gael],
                       [lab |-> <<"T","y","p","e"," ","o","f"," ","V","a","c","a","n","c","y",":">>, val |-> T_Mainstream]>>]
MobSna == [data_href |-> "/p/13", card |-> TRUE,
           rows |-> <<[lab |-> <<"S","c","h","o","o","l"," ","N","a","m","e",":">>, val |-> T_StMary],
                      [lab |-> <<"T","y","p","e"," ","o","f"," ","V","a","c","a","n","c","y",":">>, val |-> T_Sna]>>]
MobBare == [data_href |-> "/p/14", card |-> TRUE, rows |-> <<[lab |-> <<"N","o","t","e","s">>]>>]
MobNoHref == [card |-> TRUE, rows |-> <<>>]

ListingDocs ==
    {[desktop |-> <<RowPlain>>],
     [desktop |-> <<RowAnchor, RowGael, RowNoLabel>>, mobile |-> <<MobPlain>>],
     [desktop |-> <<RowGael, RowPrincipal, RowShort, RowNoUrl>>, mobile |-> <<MobPlain, MobGael>>],
     [desktop |-> <<RowEmptyHref>>, mobile |-> <<MobSna, MobNoHref, MobPlain>>],
     [desktop |-> <<RowResource, RowBare>>],
     [desktop |-> <<>>, mobile |-> <<MobPlain>>],
     [mobile |-> <<MobPlain>>],
     [other |-> TRUE]}

\* outcomes of a GET: the body was read, a non-200 status, a timeout or
\* another exception
ListingResponses ==
    {[kind |-> "html", status |-> 200, doc |-> d] : d \in ListingDocs}
    \cup {[kind |-> "status", status |-> 500], [kind |-> "timeout"], [kind |-> "exception"]}

\* the href of a desktop row: data-href, else the first link of the second cell
RowHref(tr) ==
    IF "data_href" \in DOMAIN tr THEN tr.data_href
    ELSE IF Len(tr.tds) > 1 /\ "link_href" \in DOMAIN tr THEN tr.link_href
    ELSE ""

\* every desktop row filtered as a row of teachers
RowVacancyName_Any(tds) == S_Teacher

\* the vacancy name a desktop row is filtered on: the third cell, or
\* "Teacher" when that cell is empty and some cell mentions a teacher
RowVacancyName(tds) ==
    IF Truthy(Strip(tds[3])) THEN Strip(tds[3])
    ELSE IF \E k \in 1..Len(tds) : Contains(Lower(tds[k]), S_teacher) THEN S_Teacher
    ELSE <<>>

\* the offers of the desktop table
RECURSIVE DesktopOffers(_)
DesktopOffers(trs) ==
    IF trs = <<>> THEN <<>>
    ELSE LET tr == Head(trs)
             tds == tr.tds
             rest == DesktopOffers(Tail(trs))
         IN IF RowHref(tr) = "" THEN rest
            ELSE IF Len(tds) < 6 THEN rest
            ELSE IF Contains(Lower(Strip(tds[2])), S_gaelscoil) THEN rest
            ELSE IF ~is_valid_vacancy(RowVacancyName(tds)) THEN rest
            ELSE <<[url |-> urljoin(BASE, RowHref(tr)),
                    id |-> Strip(tds[1]),
                    school |-> Strip(tds[2]),
                    vacancy |-> Strip(tds[3]),
                    status |-> Strip(tds[4]),
                    county |-> Strip(tds[5]),
                    deadline |-> Strip(tds[6])]>> \o rest

\* the key a mobile label maps to, "" when it maps to none
MobileKey(lab) ==
    LET label_text == Lower(Strip(lab)) IN
    IF Contains(label_text, S_school_name) THEN "school"
    ELSE IF Contains(label_text, S_type_of_vacancy) THEN "vacancy"
    ELSE IF Contains(label_text, S_status) THEN "status"
    ELSE IF Contains(label_text, S_county) THEN "county"
    ELSE ""

\* data after the label/value rows of a card have been read in order
RECURSIVE MobileFields(_, _)
MobileFields(data, rows) ==
    IF rows = <<>> THEN data
    ELSE LET row == Head(rows) IN
         IF ~("lab" \in DOMAIN row /\ "val" \in DOMAIN row) \/ MobileKey(row.lab) = ""
         THEN MobileFields(data, Tail(rows))
         ELSE MobileFields([k \in DOMAIN data \cup {MobileKey(row.lab)} |->
                               IF k = MobileKey(row.lab) THEN Strip(row.val) ELSE data[k]],
                           Tail(rows))

\* d with key k set to v
Put(d, k, v) == [x \in DOMAIN d \cup {k} |-> IF x = k THEN v ELSE d[x]]

MobileData(tr) ==
    LET d0 == [url |-> urljoin(BASE, tr.data_href)]
        d1 == IF "advertId" \in DOMAIN tr THEN Put(d0, "id", Strip(tr.advertId)) ELSE d0
        d2 == MobileFields(d1, tr.rows)
    IN IF "headerData" \in DOMAIN tr THEN Put(d2, "deadline", Strip(tr.headerData)) ELSE d2

\* the offers of the mobile table
RECURSIVE MobileOffers(_)
MobileOffers(trs) ==
    IF trs = <<>> THEN <<>>
    ELSE LET tr == Head(trs)
             rest == MobileOffers(Tail(trs))
         IN IF "data_href" \notin DOMAIN tr THEN rest
            ELSE IF ~tr.card THEN rest
            ELSE Only({IF "school" \in DOMAIN data /\ Contains(Lower(data.school), S_gaelscoil)
                       THEN rest
                       ELSE IF "vacancy" \in DOMAIN data /\ ~is_valid_vacancy(data.vacancy)
                       THEN rest
                       ELSE <<data>> \o rest
                         : data \in {MobileData(tr)}})

\* _extract_urls_from_page reading the mobile table after the desktop
\* table whatever the desktop table gave
extract_urls_BothLayouts(r) ==
    IF r.kind # "html" THEN <<>>
    ELSE (IF "desktop" \in DOMAIN r.doc THEN DesktopOffers(r.doc.desktop) ELSE <<>>)
         \o (IF "mobile" \in DOMAIN r.doc THEN MobileOffers(r.doc.mobile) ELSE <<>>)

\* _extract_urls_from_page: the offers of the response r to the page request
_extract_urls_from_page(r) ==
    IF r.kind # "html" THEN <<>>
    ELSE LET desktop == IF "desktop" \in DOMAIN r.doc THEN DesktopOffers(r.doc.desktop) ELSE <<>>
         IN IF desktop # <<>> THEN desktop
            ELSE IF "mobile" \in DOMAIN r.doc THEN MobileOffers(r.doc.mobile)
            ELSE <<>>

(***************************************************************************)
(* The scraper after construction.                                         *)
(***************************************************************************)
IdleProbe == [arg |-> None, ret |-> None, done |-> TRUE]

\* the scraper after __init__, the permit pool apart
InitScraper ==
    /\ probe = IdleProbe
    /\ NoBot
    /\ \E c \in CtorCredentials, m \in CtorMaxPages :
          /\ ctor = [username |-> c.username, password |-> c.password, max_pages |-> m]
          /\ \E e \in EnvCredentials :
                /\ Constructed(c, e, m)
                /\ env = e
                /\ username = init_username(c, e)
                /\ password = init_password(c, e)
          /\ self_max_pages = m
    /\ cookies = {}
    /\ is_logged_in = FALSE
    /\ pc = "idle"
    /\ max_pages = NoneInt
    /\ login_first = TRUE
    /\ limit = NoneInt
    /\ total_pages = 0
    /\ pages_to_process = 0
    /\ page_num = 0
    /\ basic = <<>>
    /\ detailed_offers = <<>>
    /\ idx = 0
    /\ ret = <<>>
    /\ reqs = <<>>
    /\ cur = NoOffer
    /\ login_calls = 0
    /\ login_ret = FALSE

Init == NoTasks /\ InitScraper

(***************************************************************************)
(* login called on its own, before the crawl.                              *)
(***************************************************************************)
Login ==
    /\ pc = "idle"
    /\ login_calls < MaxLogins
    /\ \E r \in LoginResponses :
          LET l == login(r, "caller") IN
          /\ cookies' = l.cookies
          /\ is_logged_in' = l.is_logged_in
          /\ login_ret' = l.ret
          /\ reqs' = reqs \o l.posts
    /\ login_calls' = login_calls + 1
    /\ UNCHANGED <<probe, pool, bot, config, pc, call, total_pages, pages_to_process, page_num,
                   basic, detailed_offers, idx, ret, cur>>

(***************************************************************************)
(* fetch_all: the call, then one step per awaited request.                 *)
(***************************************************************************)
CallMaxPages == {NoneInt, Some(-1), Some(0), Some(1), Some(2)}
CallLimits == {NoneInt, Some(1)}

FetchAll ==
    /\ pc = "idle"
    /\ \E mp \in CallMaxPages, lf \in BOOLEAN, lim \in CallLimits :
          /\ max_pages' = mp
          /\ login_first' = lf
          /\ limit' = lim
          /\ pc' = IF lf /\ HasCredentials THEN "login" ELSE "get_pages"
    /\ UNCHANGED <<probe, pool, bot, config, session, total_pages, pages_to_process, page_num,
                   basic, detailed_offers, idx, ret, reqs, cur, login_calls, login_ret>>

\* the crawl going on after a failed login
AfterLogin_Continue(login_success) == "get_pages"

\* where fetch_all stands after its login step: a failed login returns []
AfterLogin(login_success) == IF login_success THEN "get_pages" ELSE "done"

FetchAll_Login ==
    /\ pc = "login"
    /\ \E r \in LoginResponses :
          LET l == login(r, "fetch_all") IN
          /\ cookies' = l.cookies
          /\ is_logged_in' = l.is_logged_in
          /\ login_ret' = l.ret
          /\ reqs' = reqs \o l.posts
          /\ pc' = AfterLogin(l.ret)
    /\ login_calls' = login_calls + 1
    /\ UNCHANGED <<probe, pool, bot, config, call, total_pages, pages_to_process, page_num,
                   basic, detailed_offers, idx, ret, cur>>

\* basic[:limit] if limit else basic
Slice(s, n) ==
    IF n >= 0 THEN SubSeq(s, 1, IF n < Len(s) THEN n ELSE Len(s))
    ELSE SubSeq(s, 1, IF Len(s) + n > 0 THEN Len(s) + n ELSE 0)

ToDetail(b) == IF TruthyInt(limit) THEN Slice(b, Val(limit)) ELSE b

\* the stored cookies attached whether logged in or not
RequestCookies_Always == cookies

\* the cookies attached to a listing, detail or secondary request
RequestCookies == IF is_logged_in THEN cookies ELSE NoCookies

\* where fetch_all stands when the page loop is at page p with the offers b:
\* at the next page, or past the loop at the first offer, or returned
AfterPage(p, ptp, b) ==
    IF p <= ptp /\ ~(TruthyInt(limit) /\ Len(b) >= Val(limit)) THEN "listing"
    ELSE IF b = <<>> THEN "done"
    ELSE IF ToDetail(b) = <<>> THEN "done"
    ELSE "detail"

\* the page-1 responses of a crawl: the pagination controls of at most one item
CrawlPageOneResponses == {r \in PageOneResponses : HasPager(r) => Len(r.pager) <= 1}

\* the page limit ignored
PagesToProcess_Unlimited(mp, total) == total

\* the number of pages the page loop covers
PagesToProcess(mp, total) ==
    IF TruthyInt(mp) /\ Val(mp) < total THEN Val(mp) ELSE total

\* _get_pages and _extract_urls_from_page on each response, computed once
PagesOf == [r \in CrawlPageOneResponses |-> _get_pages(r)]
OffersOf == [r \in ListingResponses |-> _extract_urls_from_page(r)]

\* the pagination request dropping the stored session
FetchAll_GetPages_DropsSession ==
    /\ pc = "get_pages"
    /\ \E r \in CrawlPageOneResponses :
          /\ \E total \in {PagesOf[r]} :
                \E ptp \in {PagesToProcess(max_pages, total)} :
                   /\ total_pages' = total
                   /\ pages_to_process' = IF total = 0 THEN 0 ELSE ptp
                   /\ pc' = IF total = 0 THEN "done" ELSE AfterPage(1, ptp, <<>>)
                   /\ page_num' = IF total # 0 /\ AfterPage(1, ptp, <<>>) = "listing" THEN 1 ELSE 0
          /\ reqs' = Append(reqs, [kind |-> "pages", target |-> ListUrl(1), cookies |-> NoCookies,
                                   ok |-> r.kind = "html", then_delay |-> FALSE])
    /\ cookies' = {}
    /\ is_logged_in' = FALSE
    /\ UNCHANGED <<probe, pool, bot, config, call, basic, detailed_offers, idx, ret, cur,
                   login_calls, login_ret>>

FetchAll_GetPages ==
    /\ pc = "get_pages"
    /\ \E r \in CrawlPageOneResponses :
          /\ \E total \in {PagesOf[r]} :
                \E ptp \in {PagesToProcess(max_pages, total)} :
                   /\ total_pages' = total
                   /\ pages_to_process' = IF total = 0 THEN 0 ELSE ptp
                   /\ pc' = IF total = 0 THEN "done" ELSE AfterPage(1, ptp, <<>>)
                   /\ page_num' = IF total # 0 /\ AfterPage(1, ptp, <<>>) = "listing" THEN 1 ELSE 0
          /\ reqs' = Append(reqs, [kind |-> "pages", target |-> ListUrl(1), cookies |-> NoCookies,
                                   ok |-> r.kind = "html", then_delay |-> FALSE])
    /\ UNCHANGED <<probe, pool, bot, config, session, call, basic, detailed_offers, idx, ret, cur,
                   login_calls, login_ret>>

FetchAll_Listing ==
    /\ pc = "listing"
    /\ \E r \in ListingResponses :
          /\ \E b \in {basic \o OffersOf[r]} :
                \E after \in {AfterPage(page_num + 1, pages_to_process, b)} :
                   /\ Len(b) <= MaxOffers
                   /\ basic' = b
                   /\ pc' = after
                   /\ page_num' = IF after = "listing" THEN page_num + 1 ELSE page_num
                   /\ idx' = IF after = "detail" THEN 1 ELSE idx
          /\ reqs' = Append(reqs, [kind |-> "listing", target |-> ListUrl(page_num),
                                   cookies |-> RequestCookies, ok |-> r.kind = "html",
                                   then_delay |-> r.kind = "html" \/ page_num < pages_to_process])
    /\ UNCHANGED <<probe, pool, bot, config, session, call, total_pages, pages_to_process,
                   detailed_offers, ret, cur, login_calls, login_ret>>

(***************************************************************************)
(* Detail pages.  A document has advert rows (a label and the text nodes   *)
(* of the value), mailto links met from an "apply to" text, links, the     *)
(* text of the description and requirements containers and a heading.      *)
(***************************************************************************)
S_apply_to == <<"a","p","p","l","y"," ","t","o">>
S_enquiries == <<"e","n","q","u","i","r","i","e","s">>
S_contact == <<"c","o","n","t","a","c","t">>
S_about == <<"a","b","o","u","t">>
S_staff == <<"s","t","a","f","f">>
S_ellipsis == <<".",".",".">>

\* s without the character c: s.replace(c, '')
Remove(s, c) == SelectSeq(s, LAMBDA x : x # c)

\* get_text(separator=' ', strip=True): the stripped non-empty text nodes,
\* joined by single spaces
GetText(nodes) ==
    Join(SelectSeq([k \in 1..Len(nodes) |-> Strip(nodes[k])], LAMBDA n : n # <<>>), <<" ">>)

\* the normalised label of an advert row
LabelText(row) == Remove(Lower(Strip(row.label)), ":")

IsApplyTo(label_text) == Contains(label_text, S_apply_to)
IsEnquiries(label_text) ==
    Contains(label_text, S_enquiries) \/ Contains(label_text, S_contact)

\* the rows a loop over the advert rows reads: the "apply to" rows in the
\* first loop, the "enquiries" and "contact" rows in the second
Wanted(which, label_text) ==
    IF which = "apply to" THEN IsApplyTo(label_text) ELSE IsEnquiries(label_text)

\* one loop over the advert rows: the first address accepted in a row it
\* reads, None when no such row gives one
RECURSIVE RowsEmail(_, _)
RowsEmail(rows, which) ==
    IF rows = <<>> THEN None
    ELSE IF "value" \in DOMAIN Head(rows) /\ Wanted(which, LabelText(Head(rows)))
    THEN Only({IF Truthy(possible_email) /\ ~HasBadMail(possible_email)
               THEN possible_email
               ELSE RowsEmail(Tail(rows), which)
                 : possible_email \in {first_valid_email(GetText(Head(rows).value))}})
    ELSE RowsEmail(Tail(rows), which)

\* mailto_link['href'][7:].split('?')[0].strip()
MailtoAddress(href) == Strip(SplitHead(SubSeq(href, 8, Len(href)), <<"?">>))

\* the first accepted address among the mailto links, None when there is none
RECURSIVE MailtoEmail(_)
MailtoEmail(hrefs) ==
    IF hrefs = <<>> THEN None
    ELSE Only({IF Truthy(email) /\ Truthy(first_valid_email(email)) /\ ~HasBadMail(email)
               THEN email
               ELSE MailtoEmail(Tail(hrefs))
                 : email \in {MailtoAddress(Head(hrefs))}})

\* x when it is truthy, else y
OrElse(x, y) == Only({IF Truthy(v) THEN v ELSE y : v \in {x}})

\* the contact address of the detail page itself: "apply to" rows, then
\* "enquiries"/"contact" rows, then mailto links
PageEmail(doc) ==
    OrElse(RowsEmail(doc.rows, "apply to"),
           OrElse(RowsEmail(doc.rows, "enquiries"),
                  OrElse(MailtoEmail(doc.mailtos), None)))

\* text[:n] + "..." when text is longer than n
Truncate(text, n) == IF Len(text) > n THEN SubSeq(text, 1, n) \o S_ellipsis ELSE text

S_cookie == <<"c","o","o","k","i","e">>
S_privacy == <<"p","r","i","v","a","c","y">>
S_copyright == <<"c","o","p","y","r","i","g","h","t">>

\* the loop over the description selectors: containers holds, in the order
\* of the selectors, the text of the element each one selects (None when it
\* selects none); text is description_text after the loop, stored the
\* description the loop wrote (None when it wrote none)
RECURSIVE SelectorLoop(_, _)
SelectorLoop(containers, description_text) ==
    IF containers = <<>> THEN [text |-> description_text, stored |-> None]
    ELSE IF Head(containers) = None THEN SelectorLoop(Tail(containers), description_text)
    ELSE IF Len(Head(containers)) > 50
    THEN [text |-> Head(containers), stored |-> Truncate(Head(containers), 800)]
    ELSE SelectorLoop(Tail(containers), Head(containers))

\* a paragraph of the main content that is kept
Substantial(text) ==
    /\ Len(text) > 30
    /\ ~Contains(Lower(text), S_cookie)
    /\ ~Contains(Lower(text), S_privacy)
    /\ ~Contains(Lower(text), S_copyright)

\* the description taken from the paragraphs of the main content block
\* (None for a page without such a block), None when it gives none
MainDescription(main) ==
    IF main = None THEN None
    ELSE Only({IF ps = <<>> THEN None
               ELSE Truncate(Join(SubSeq(ps, 1, IF Len(ps) < 3 THEN Len(ps) ELSE 3), <<" ">>), 800)
                 : ps \in {SelectSeq(main, Substantial)}})

\* the description _offer_detail stores, None when it stores none
Description(containers, main) ==
    Only({IF loop.stored # None THEN loop.stored
          ELSE IF ~Truthy(loop.text) THEN MainDescription(main)
          ELSE None
            : loop \in {SelectorLoop(containers, None)}})

\* the offer with the description of the page, if it gives one: the page
\* has at most one description container and may have a main content block
WithDescription(offer, doc) ==
    Only({IF d # None THEN Put(offer, "description", d) ELSE offer
            : d \in {Description(IF "description" \in DOMAIN doc THEN <<doc.description>> ELSE <<>>,
                                 Get(doc, "main", None))}})

\* the additional data of the page: the description and the requirements
\* taken from their containers
AdditionalData(offer, doc) ==
    Only({IF "requirements" \in DOMAIN doc /\ Truthy(doc.requirements)
          THEN Put(o1, "requirements", Truncate(doc.requirements, 400)) ELSE o1
            : o1 \in {WithDescription(offer, doc)}})

\* the links probed for an address: the first two whose href mentions
\* contact, about or staff
SecondaryLinks(doc) ==
    LET ls == SelectSeq(doc.hrefs, LAMBDA h : \/ Contains(Lower(h), S_contact)
                                              \/ Contains(Lower(h), S_about)
                                              \/ Contains(Lower(h), S_staff))
    IN SubSeq(ls, 1, IF Len(ls) < 2 THEN Len(ls) ELSE 2)

\* the end of _offer_detail: the address, if any, and the vacancy taken
\* from the heading when the listing gave none
FinishDetail(offer, mail, doc) ==
    Only({IF ~Truthy(Strip(Get(o1, "vacancy", <<>>))) /\ "h2" \in DOMAIN doc /\ Truthy(Strip(doc.h2))
          THEN Put(o1, "vacancy", Strip(doc.h2)) ELSE o1
            : o1 \in {IF Truthy(mail) THEN Put(offer, "email", mail) ELSE offer}})

(***************************************************************************)
(* The detail pages of the site, by the path of the offer, and the         *)
(* outcomes of a request.                                                  *)
(***************************************************************************)
T_LongDescription == <<"W","e"," ","a","r","e"," ","a"," ","c","o","-","e","d","u","c","a","t","i","o","n","a","l"," ","p","r","i","m","a","r","y"," ","s","c","h","o","o","l"," ","a","n","d"," ","i","n","v","i","t","e"," ","a","p","p","l","i","c","a","t","i","o","n","s",".">>
T_PrincipalDescription == <<"T","h","e"," ","s","u","c","c","e","s","s","f","u","l"," ","c","a","n","d","i","d","a","t","e"," ","r","e","p","o","r","t","s"," ","t","o"," ","t","h","e"," ","P","r","i","n","c","i","p","a","l"," ","T","e","a","c","h","e","r"," ","o","f"," ","t","h","e"," ","s","c","h","o","o","l",".">>
T_PlacementDescription == <<"S","u","b","s","t","i","t","u","t","e"," ","t","e","a","c","h","e","r"," ","p","l","a","c","e","m","e","n","t"," ","f","o","r"," ","t","h","e"," ","f","u","l","l"," ","s","c","h","o","o","l"," ","y","e","a","r"," ","a","t"," ","o","u","r"," ","s","c","h","o","o","l",".">>
T_Requirements == <<"R","e","g","i","s","t","r","a","t","i","o","n"," ","w","i","t","h"," ","t","h","e"," ","T","e","a","c","h","i","n","g"," ","C","o","u","n","c","i","l">>

DocApply == [rows |-> <<[label |-> <<"S","c","h","o","o","l",":">>, value |-> <<T_StMary>>],
                        [label |-> <<"A","p","p","l","y"," ","T","o",":">>, value |-> <<<<"T","h","e"," ","P","r","i","n","c","i","p","a","l",",">>, <<" ","i","n","f","o","@","s","c","h","o","o","l",".","i","e"," ">>>>],
                        [label |-> <<"E","n","q","u","i","r","i","e","s"," ","T","o",":">>, value |-> <<<<"o","f","f","i","c","e","@","s","c","h","o","o","l",".","i","e">>>>]>>,
             mailtos |-> <<>>, hrefs |-> <<<<"/","c","o","n","t","a","c","t","-","u","s">>>>,
             description |-> T_LongDescription, requirements |-> T_Requirements]
DocEnquiries == [rows |-> <<[label |-> <<"E","n","q","u","i","r","i","e","s"," ","T","o",":">>, value |-> <<<<"o","f","f","i","c","e","@","s","c","h","o","o","l",".","i","e">>>>],
                            [label |-> <<"A","p","p","l","y"," ","T","o",":">>, value |-> <<<<"N","o","R","e","p","l","y","@","s","c","h","o","o","l",".","i","e">>>>],
                            [label |-> <<"A","p","p","l","y"," ","T","o",":">>]>>,
                 mailtos |-> <<>>, hrefs |-> <<>>, description |-> <<"S","h","o","r","t"," ","t","e","x","t">>]
DocLinks == [rows |-> <<[label |-> <<"A","p","p","l","y"," ","T","o",":">>, value |-> <<<<"s","e","e"," ","o","u","r"," ","w","e","b","s","i","t","e">>>>]>>,
             mailtos |-> <<>>,
             hrefs |-> <<<<"/","n","e","w","s">>, <<"/","C","o","n","t","a","c","t","-","u","s">>, <<"/","a","b","o","u","t">>, <<"/","s","t","a","f","f">>>>,
             h2 |-> <<" ","T","e","a","c","h","e","r"," ","o","f"," ","M","a","t","h","s"," ">>, description |-> T_LongDescription]
DocMailto == [rows |-> <<>>,
              mailtos |-> <<<<"m","a","i","l","t","o",":","j","o","b","s","@","e","d","u","c","a","t","i","o","n","p","o","s","t","s",".","i","e">>, <<"m","a","i","l","t","o",":","?","s","u","b","j","e","c","t","=","J","o","b">>,
                            <<"M","A","I","L","T","O",":"," ","j","o","b","s","@","s","c","h","o","o","l",".","i","e","?","s","u","b","j","e","c","t","=","J","o","b">>>>,
              hrefs |-> <<>>]
DocWebsite == [rows |-> <<[label |-> <<"A","p","p","l","y"," ","T","o">>, value |-> <<<<"W","e","b","s","i","t","e","@","s","c","h","o","o","l",".","i","e">>>>],
                          [label |-> <<"A","p","p","l","y"," ","T","o">>, value |-> <<<<"o","f","f","i","c","e","@","s","c","h","o","o","l",".","i","e","W","e","b","s","i","t","e">>>>]>>,
               mailtos |-> <<>>, hrefs |-> <<>>, h2 |-> T_Mainstream]
DocPrincipal == [rows |-> <<[label |-> <<"C","o","n","t","a","c","t",":">>, value |-> <<<<"T","h","e"," ","s","c","h","o","o","l"," ","o","f","f","i","c","e">>>>]>>,
                 mailtos |-> <<>>, hrefs |-> <<<<"/","s","t","a","f","f">>>>, description |-> T_PrincipalDescription]
DocNone == [rows |-> <<>>, mailtos |-> <<>>, hrefs |-> <<<<"/","n","e","w","s">>>>,
            description |-> T_PlacementDescription]

SiteDetail == [path \in {"/p/1", "/p/2", "/p/6", "/p/8", "/p/9", "/p/11", "/p/14"} |->
                  CASE path = "/p/1" -> DocApply
                    [] path = "/p/2" -> DocEnquiries
                    [] path = "/p/6" -> DocPrincipal
                    [] path = "/p/8" -> DocLinks
                    [] path = "/p/9" -> DocNone
                    [] path = "/p/11" -> DocMailto
                    [] path = "/p/14" -> DocWebsite]

\* the outcomes of the request for the detail page of an offer
DetailResponses(offer) ==
    {[kind |-> "html", status |-> 200, doc |-> SiteDetail[offer.url.path]],
     [kind |-> "status", status |-> 404], [kind |-> "timeout"], [kind |-> "exception"]}

\* the outcomes of the request for a secondary page
SecondaryResponses ==
    {[kind |-> "html", status |-> 200, text |-> <<"C","a","l","l"," ","u","s"," ","o","n"," ","0","1"," ","2","3","4","5","6","7">>],
     [kind |-> "html", status |-> 200, text |-> <<"w","e","b","m","a","s","t","e","r","@","w","o","r","d","p","r","e","s","s",".","o","r","g">>],
     [kind |-> "html", status |-> 200, text |-> <<"a","d","m","i","n","@","W","o","r","d","P","r","e","s","s",".","o","r","g",","," ","o","f","f","i","c","e","@","s","c","h","o","o","l",".","i","e">>],
     [kind |-> "status", status |-> 404], [kind |-> "exception"]}

\* the address found on a secondary page, None when the page gives none
SecondaryEmail(r) == IF r.kind = "html" THEN first_valid_email(r.text) ELSE None

(***************************************************************************)
(* The filter of fetch_all on a detailed offer.                            *)
(***************************************************************************)
AllText(detailed) ==
    Lower(Join(<<Get(detailed, "vacancy", <<>>),
                 Get(detailed, "additional information", <<>>),
                 Get(detailed, "description", <<>>),
                 Get(detailed, "requirements", <<>>),
                 Get(detailed, "required subject", <<>>),
                 Get(detailed, "subjects", <<>>)>>, <<" ">>))

\* the offer appended twice
Filtered_Twice(detailed) == <<detailed, detailed>>

\* the offer as fetch_all appends it, <<>> when it is filtered out
Filtered(detailed) ==
    IF Contains(Lower(Get(detailed, "school_name", <<>>)), S_gaelscoil) THEN <<>>
    ELSE Only({IF /\ Contains(all_text, S_teacher)
                  /\ ~Contains(all_text, S_principal_teacher)
                  /\ ~Contains(all_text, S_special_school_teacher_placement)
               THEN <<Put(detailed, "vacancy", S_Teacher)>>
               ELSE <<>>
                 : all_text \in {AllText(detailed)}})

\* the links _offer_detail requests: none when the page gave an address
SecondaryToVisit(mail, links) == IF ~Truthy(mail) THEN links ELSE <<>>

\* _offer_detail up to its first await on a secondary page, computed once
\* for each page of the site
PageOf == [path \in DOMAIN SiteDetail |->
              [mail |-> PageEmail(SiteDetail[path]),
               links |-> SecondaryLinks(SiteDetail[path])]]
SecondaryOf == [r \in SecondaryResponses |-> SecondaryEmail(r)]

\* the offer at position idx of the detail loop
Offer == ToDetail(basic)[idx]

\* the detail loop left after its first offer
AfterOffer_StopAtFirst == "done"

\* where fetch_all stands after the offer at idx
AfterOffer == IF idx < Len(ToDetail(basic)) THEN "detail" ELSE "done"

\* _offer_detail returned a record of which fetch_all keeps kept (the record
\* or nothing): the rest of the loop body
Returned(kept) ==
    /\ detailed_offers' = detailed_offers \o kept
    /\ pc' = AfterOffer
    /\ idx' = idx + 1
    /\ ret' = IF AfterOffer = "done" THEN detailed_offers \o kept ELSE ret
    /\ cur' = NoOffer

\* the sleep that ends the body of the detail loop, which `continue` skips
LoopDelay(kept) == kept # <<>> /\ idx < Len(basic)

\* the request for the detail page and the extraction on that page
FetchAll_Detail ==
    /\ pc = "detail"
    /\ \E r \in DetailResponses(Offer) :
          /\ IF r.kind # "html"
             THEN /\ pc' = AfterOffer
                  /\ idx' = idx + 1
                  /\ ret' = IF AfterOffer = "done" THEN detailed_offers ELSE ret
                  /\ UNCHANGED <<detailed_offers, cur>>
             ELSE \E page \in {PageOf[Offer.url.path]} :
                     \E offer \in {AdditionalData(Offer, r.doc)} :
                        IF SecondaryToVisit(page.mail, page.links) # <<>>
                        THEN /\ pc' = "secondary"
                             /\ cur' = [offer |-> offer, links |-> page.links, doc |-> r.doc]
                             /\ UNCHANGED <<detailed_offers, idx, ret>>
                        ELSE \E detailed \in {FinishDetail(offer, page.mail, r.doc)} :
                                \E kept \in {Filtered(detailed)} : Returned(kept)
          /\ reqs' = Append(reqs, [kind |-> "detail", target |-> Offer.url,
                                   cookies |-> RequestCookies, ok |-> r.kind = "html",
                                   then_delay |-> r.kind = "html" \/ idx < Len(basic)])
    /\ UNCHANGED <<probe, pool, bot, config, session, call, total_pages, pages_to_process, page_num,
                   basic, login_calls, login_ret>>

\* the request for the next secondary page
FetchAll_Secondary ==
    /\ pc = "secondary"
    /\ \E r \in SecondaryResponses :
          \E m \in {SecondaryOf[r]} :
             IF ~Truthy(m)
             THEN /\ IF Len(cur.links) > 1
                     THEN /\ cur' = [cur EXCEPT !.links = Tail(cur.links)]
                          /\ UNCHANGED <<pc, detailed_offers, idx, ret>>
                     ELSE \E detailed \in {FinishDetail(cur.offer, None, cur.doc)} :
                             \E kept \in {Filtered(detailed)} : Returned(kept)
                  /\ reqs' = Append(reqs, [kind |-> "secondary", target |-> LinkUrl(Head(cur.links)),
                                           cookies |-> RequestCookies, ok |-> r.kind = "html",
                                           then_delay |-> TRUE])
             ELSE \E detailed \in {FinishDetail(cur.offer, m, cur.doc)} :
                     \E kept \in {Filtered(detailed)} :
                        /\ Returned(kept)
                        /\ reqs' = Append(reqs, [kind |-> "secondary",
                                                 target |-> LinkUrl(Head(cur.links)),
                                                 cookies |-> RequestCookies, ok |-> TRUE,
                                                 then_delay |-> LoopDelay(kept)])
    /\ UNCHANGED <<probe, pool, bot, config, session, call, total_pages, pages_to_process, page_num,
                   basic, login_calls, login_ret>>

Next ==
    \/ Login
    \/ FetchAll
    \/ FetchAll_Login
    \/ FetchAll_GetPages
    \/ FetchAll_Listing
    \/ FetchAll_Detail
    \/ FetchAll_Secondary

Spec == Init /\ [][Next]_vars

(***************************************************************************)
(* Properties of the crawl.                                                *)
(***************************************************************************)
\* the requests of one kind, in the order they were issued
Requests(kind) == SelectSeq(reqs, LAMBDA q : q.kind = kind)

\* the listing pages requested by the listing extractor, in order
ListingPages == [k \in 1..Len(Requests("listing")) |-> Requests("listing")[k].target.page]

Min2(a, b) == IF a < b THEN a ELSE b

\* C3: the contact e-mail of every record fetch_all collects or returns, if
\* present, contains no blocklisted marker, whichever path produced it.
C3_NoBlocklistedEmail ==
    \A k \in 1..Len(detailed_offers) :
        "email" \in DOMAIN detailed_offers[k] => ~HasBadMail(detailed_offers[k].email)

\* a returned crawl with a record whose address comes from a secondary page
C3_Witness ==
    /\ pc = "done"
    /\ ret = detailed_offers
    /\ \E k \in 1..Len(ret) :
          /\ ret[k].url.path = "/p/8"
          /\ "email" \in DOMAIN ret[k]
          /\ ret[k].email = <<"o","f","f","i","c","e","@","s","c","h","o","o","l",".","i","e">>

\* C6: for every max_pages <= 0 the result is empty and no detail page is
\* requested.
C6_NonPositiveMaxPagesEmpty ==
    (pc # "idle" /\ max_pages # NoneInt /\ Val(max_pages) <= 0) =>
        /\ Requests("detail") = <<>>
        /\ detailed_offers = <<>>
        /\ ret = <<>>

\* C7: with max_pages = N >= 1, no limit and T pages discovered, the listing
\* extractor requests the pages 1, 2, ... in increasing order, each once,
\* never one beyond min(N, T), and all of 1..min(N, T) before the detail
\* phase or the return.
C7_ListingPagesInOrder ==
    (pc # "idle" /\ max_pages # NoneInt /\ Val(max_pages) >= 1 /\ limit = NoneInt) =>
        /\ \A k \in 1..Len(ListingPages) : ListingPages[k] = k
        /\ Len(ListingPages) <= Min2(Val(max_pages), total_pages) \/ ListingPages = <<>>
        /\ (pc \in {"detail", "secondary", "done"} /\ Requests("pages") # <<>> /\ total_pages >= 1
               => Len(ListingPages) = Min2(Val(max_pages), total_pages))

C7_Witness ==
    /\ pc = "done"
    /\ max_pages = Some(2)
    /\ limit = NoneInt
    /\ total_pages = 3
    /\ ListingPages = <<1, 2>>

\* C8: a max_pages N >= 1 given at construction limits a crawl started
\* without a max_pages argument to at most N listing pages.
C8_CtorMaxPagesLimits ==
    (pc # "idle" /\ max_pages = NoneInt /\ ctor.max_pages # NoneInt /\ Val(ctor.max_pages) >= 1) =>
        Len(ListingPages) <= Val(ctor.max_pages)

\* the request sent by the last step, when that step was a call of login
LoginPosts == SubSeq(reqs', Len(reqs) + 1, Len(reqs'))

\* what a call of login does, success being the statuses in Success
LoginContract(Success) ==
    login_calls' = login_calls + 1 =>
        IF HasCredentials
        THEN /\ Len(LoginPosts) = 1
             /\ LoginPosts[1].kind = "login"
             /\ LoginPosts[1].allow_redirects = FALSE
             /\ login_ret' = (LoginPosts[1].status \in Success)
             /\ login_ret' => cookies' = LoginPosts[1].resp_cookies /\ is_logged_in' = TRUE
             /\ ~login_ret' => UNCHANGED <<cookies, is_logged_in>>
        ELSE /\ LoginPosts = <<>>
             /\ login_ret' = FALSE
             /\ UNCHANGED <<cookies, is_logged_in>>

\* C9 (as stated): login sends one form POST without following redirects and
\* succeeds exactly on a redirect-class response (any 3xx); on success the
\* response cookies become the session and the flag is set; otherwise it
\* fails and leaves the cookies and the flag unchanged.
C9_LoginAnyRedirect == [][LoginContract(300..399)]_vars

\* C9 (amended): as above, with success exactly on status 302, and with no
\* request at all when a username or a password is missing.
C9_LoginExactly302 == [][LoginContract({302})]_vars

\* a failed login after a successful one: the session of the first is kept
C9_Witness ==
    /\ login_calls = 2
    /\ login_ret = FALSE
    /\ Len(Requests("login")) = 2
    /\ Requests("login")[2].status = 301
    /\ cookies = SessionA
    /\ is_logged_in = TRUE

\* the requests of fetch_all carry no session cookies, none of them is a login
\* POST, and the first is the pagination request
Unauthenticated ==
    /\ \A k \in 1..Len(reqs) : reqs[k].kind = "login" => reqs[k].via # "fetch_all"
    /\ \A k \in 1..Len(reqs) : reqs[k].kind # "login" => reqs[k].cookies = NoCookies
    /\ Requests("pages") = <<>> =>
           Requests("listing") = <<>> /\ Requests("detail") = <<>> /\ Requests("secondary") = <<>>
    /\ pc \in {"listing", "detail", "secondary", "done"} => Requests("pages") # <<>>
    /\ pc # "login"

\* C10 (as stated): when no username/password are given to the constructor,
\* fetch_all issues no login POST, goes straight to pagination discovery and
\* attaches no session cookies to any request.
C10_NoCtorCredentials ==
    (ctor.username = None /\ ctor.password = None) => Unauthenticated

\* C10 (amended): the same when the effective username or password
\* (constructor argument, else environment variable) is missing.
C10_NoEffectiveCredentials == ~HasCredentials => Unauthenticated

C10_Witness ==
    /\ ~HasCredentials
    /\ ctor.username # None
    /\ login_first = TRUE
    /\ pc = "done"
    /\ Requests("detail") # <<>>
    /\ \A k \in 1..Len(reqs) : reqs[k].cookies = NoCookies

(***************************************************************************)
(* Failed requests.                                                        *)
(***************************************************************************)
\* the requests of the fetch_all run: a POST sent by a call of login made
\* before the run is not part of it
RunRequests == SelectSeq(reqs, LAMBDA q : q.kind # "login" \/ q.via = "fetch_all")

\* the request failed: a timeout, an exception or a status other than the
\* one its caller takes as success
FailedRequest(q) == IF q.kind = "login" THEN q.status # 302 ELSE ~q.ok

\* two requests for the same URL
SameUrl(a, b) ==
    IF a.kind = "login" \/ b.kind = "login" THEN a.kind = b.kind ELSE a.target = b.target

\* C11: once a request of the run to a URL has failed, that URL is never
\* requested again during the run (login POST, pagination request, listing,
\* detail and secondary pages alike).
C11_FailedUrlNotRequestedAgain ==
    \A j \in 1..Len(RunRequests) : \A k \in (j + 1)..Len(RunRequests) :
        FailedRequest(RunRequests[j]) => ~SameUrl(RunRequests[j], RunRequests[k])


(***************************************************************************)
(* The scope of a failure.                                                 *)
(***************************************************************************)
\* the step issued one request of this kind and it failed
FailedStep(kind) ==
    /\ Len(reqs') = Len(reqs) + 1
    /\ reqs'[Len(reqs')].kind = kind
    /\ ~reqs'[Len(reqs')].ok

\* a failed listing page adds nothing and the loop goes on to the next page
ListingFailureLocal ==
    FailedStep("listing") =>
        /\ basic' = basic
        /\ page_num < pages_to_process =>
               /\ pc' = "listing"
               /\ page_num' = page_num + 1
        /\ pc' = "done" => ret' = <<>>

\* a failed detail request drops that record only and the loop goes on to
\* the next record
DetailFailureLocal ==
    FailedStep("detail") =>
        /\ detailed_offers' = detailed_offers
        /\ idx < Len(ToDetail(basic)) =>
               /\ pc' = "detail"
               /\ idx' = idx + 1
        /\ idx = Len(ToDetail(basic)) =>
               /\ pc' = "done"
               /\ ret' = detailed_offers

\* a failed secondary request leaves the record in progress: the next link
\* is tried, or the record is finished without an address from that page
SecondaryFailureLocal ==
    FailedStep("secondary") =>
        /\ Len(cur.links) > 1 =>
               /\ pc' = "secondary"
               /\ cur' = [cur EXCEPT !.links = Tail(cur.links)]
               /\ UNCHANGED <<detailed_offers, idx>>
        /\ Len(cur.links) = 1 =>
               /\ pc' \in {"detail", "done"}
               /\ idx' = idx + 1
               /\ \/ detailed_offers' = detailed_offers
                  \/ /\ Len(detailed_offers') = Len(detailed_offers) + 1
                     /\ SubSeq(detailed_offers', 1, Len(detailed_offers)) = detailed_offers
                     /\ detailed_offers'[Len(detailed_offers')].url = cur.offer.url

\* every page and every record was attempted when fetch_all has returned
AllAttempted ==
    (pc' = "done" /\ reqs' # reqs /\ Len(SelectSeq(reqs', LAMBDA q : q.kind = "pages")) = 1
       /\ total_pages' >= 1) =>
        /\ limit = NoneInt =>
               Len(SelectSeq(reqs', LAMBDA q : q.kind = "listing")) =
                   IF pages_to_process' > 0 THEN pages_to_process' ELSE 0
        /\ Len(SelectSeq(reqs', LAMBDA q : q.kind = "detail")) = Len(ToDetail(basic'))

\* C12: a failed fetch is scoped to its unit of work: a failed listing page
\* contributes nothing and the later pages are still requested, a failed
\* detail request drops that record and the later records are still
\* processed, and fetch_all returns a list whatever requests fail.
C12_FailureIsLocal ==
    [][ListingFailureLocal /\ DetailFailureLocal /\ SecondaryFailureLocal /\ AllAttempted]_vars

\* a crawl that returned a record after its first listing page and its
\* first detail request had failed
C12_Witness ==
    /\ pc = "done"
    /\ Len(ret) = 1
    /\ Len(Requests("listing")) = 2
    /\ ~Requests("listing")[1].ok
    /\ Len(Requests("detail")) = 2
    /\ ~Requests("detail")[1].ok
    /\ Requests("detail")[2].ok

(***************************************************************************)
(* Records and the BasicRecords they come from.                            *)
(***************************************************************************)
\* what identifies the BasicRecord of a record: its listing fields other
\* than the vacancy label
ListingFields == {"url", "id", "school", "status", "county", "deadline"}
Origin(rec) == [k \in DOMAIN rec \cap ListingFields |-> rec[k]]

\* out is obtained from from by dropping elements
RECURSIVE DroppedFrom(_, _)
DroppedFrom(out, from) ==
    IF out = <<>> THEN TRUE
    ELSE IF from = <<>> THEN FALSE
    ELSE IF Origin(Head(out)) = Origin(Head(from)) THEN DroppedFrom(Tail(out), Tail(from))
    ELSE DroppedFrom(out, Tail(from))

\* the BasicRecords the detail loop is done with
Processed ==
    IF pc \in {"detail", "secondary"} THEN SubSeq(ToDetail(basic), 1, idx - 1)
    ELSE IF pc = "done" THEN ToDetail(basic)
    ELSE <<>>

\* C13: the list fetch_all builds and returns is obtained from the
\* BasicRecord list only by dropping elements: each BasicRecord yields at
\* most one record, in listing order, and the output is never longer than
\* the list of BasicRecords.
C13_AtMostOnePerBasicRecord ==
    /\ DroppedFrom(detailed_offers, Processed)
    /\ DroppedFrom(ret, basic)
    /\ Len(detailed_offers) <= Len(basic)
    /\ Len(ret) <= Len(basic)

\* a returned crawl that dropped the first of two BasicRecords and kept the
\* second
C13_Witness ==
    /\ pc = "done"
    /\ Len(basic) = 2
    /\ Len(ret) = 1
    /\ basic[1].url # basic[2].url
    /\ ret[1].url = basic[2].url
    /\ Requests("detail")[1].ok

(***************************************************************************)
(* The re-check of fetch_all and the vacancy of the returned records.     *)
(***************************************************************************)
\* the BasicRecords a returned record can come from
BasicOf(rec) == {j \in 1..Len(basic) : Origin(basic[j]) = Origin(rec)}

\* the vacancy label extracted for a record: the listing label, which the
\* detail page only replaces when it is empty
ExtractedLabel(rec, j) ==
    IF Truthy(Strip(Get(basic[j], "vacancy", <<>>))) THEN basic[j].vacancy
    ELSE Get(rec, "vacancy", <<>>)

\* the union of the vacancy, description and requirements text of a record
CombinedText(rec, label) ==
    Join(<<label, Get(rec, "description", <<>>), Get(rec, "requirements", <<>>)>>, <<" ">>)

\* C14: every record returned by fetch_all has a combined vacancy,
\* description and requirements text that is_valid_vacancy accepts, be the
\* vacancy taken as returned or as extracted from the listing.
C14_ReturnedPassesFilterEngine ==
    \A i \in 1..Len(ret) : \A j \in BasicOf(ret[i]) :
        \/ is_valid_vacancy(CombinedText(ret[i], Get(ret[i], "vacancy", <<>>)))
        \/ is_valid_vacancy(CombinedText(ret[i], ExtractedLabel(ret[i], j)))

\* C15: the vacancy of every record returned by fetch_all is the vacancy
\* label extracted for that posting.
C15_VacancyIsExtractedLabel ==
    \A i \in 1..Len(ret) : \A j \in BasicOf(ret[i]) :
        Truthy(Strip(Get(basic[j], "vacancy", <<>>)))
            => Get(ret[i], "vacancy", <<>>) = basic[j].vacancy

(***************************************************************************)
(* The contact address of one detail page.                                 *)
(***************************************************************************)
AR_ApplyInfo == [label |-> <<"A","p","p","l","y"," ","T","o",":">>, value |-> <<<<"T","h","e"," ","P","r","i","n","c","i","p","a","l",",">>, <<" ","i","n","f","o","@","s","c","h","o","o","l",".","i","e"," ">>>>]
AR_ApplyWebsite == [label |-> <<"A","p","p","l","y"," ","T","o",":">>, value |-> <<<<"W","e","b","s","i","t","e","@","s","c","h","o","o","l",".","i","e">>>>]
AR_ApplyNoReply == [label |-> <<"A","P","P","L","Y"," ","T","O">>, value |-> <<<<"N","o","R","e","p","l","y","@","s","c","h","o","o","l",".","i","e">>>>]
AR_ApplyNoValue == [label |-> <<"A","p","p","l","y"," ","T","o",":">>]
AR_Enquiries == [label |-> <<"E","n","q","u","i","r","i","e","s"," ","T","o",":">>, value |-> <<<<"o","f","f","i","c","e","@","s","c","h","o","o","l",".","i","e">>>>]
AR_Contact == [label |-> <<"C","o","n","t","a","c","t",":">>, value |-> <<<<"a","d","m","i","n","@","w","o","r","d","p","r","e","s","s",".","o","r","g">>, <<"h","e","a","d","@","s","c","h","o","o","l",".","i","e">>>>]
AR_School == [label |-> <<"S","c","h","o","o","l",":">>, value |-> <<<<"s","t","m","a","r","y","@","s","c","h","o","o","l",".","i","e">>>>]
AdvertRows == {AR_ApplyInfo, AR_ApplyWebsite, AR_ApplyNoReply, AR_ApplyNoValue, AR_Enquiries, AR_Contact, AR_School}
MailtoLists == {<<>>,
                <<<<"m","a","i","l","t","o",":","j","o","b","s","@","s","c","h","o","o","l",".","i","e","?","s","u","b","j","e","c","t","=","J","o","b">>>>,
                <<<<"m","a","i","l","t","o",":","j","o","b","s","@","e","d","u","c","a","t","i","o","n","p","o","s","t","s",".","i","e">>, <<"M","A","I","L","T","O",":"," ","a","p","p","l","y","@","s","c","h","o","o","l",".","i","e">>>>}
LinkLists == {<<>>, <<<<"/","n","e","w","s">>, <<"/","c","o","n","t","a","c","t","-","u","s">>>>}
ContactDocs == {[rows |-> rs, mailtos |-> ms, hrefs |-> hs]
                  : rs \in SeqsUpTo(AdvertRows, MaxRows), ms \in MailtoLists, hs \in LinkLists}

InitContact ==
    /\ \E doc \in ContactDocs : probe = [arg |-> doc, ret |-> None, done |-> FALSE]
    /\ NoCrawl

\* the part of _offer_detail that settles the address of the page and the
\* secondary pages to ask
CallOfferDetailContact ==
    /\ ~probe.done
    /\ \E mail \in {PageEmail(probe.arg)} :
          probe' = [probe EXCEPT !.ret = [mail |-> mail,
                                          links |-> SecondaryToVisit(mail, SecondaryLinks(probe.arg))],
                                 !.done = TRUE]
    /\ UNCHANGED <<crawl, pool, bot>>

NextContact == CallOfferDetailContact

SpecContact == InitContact /\ [][NextContact]_vars

\* the rows of a page with a value and a label of the given kind that hold
\* a syntactically valid address with no blocklisted marker
YieldingRows(doc, strict, which) ==
    {k \in 1..Len(doc.rows) :
        /\ "value" \in DOMAIN doc.rows[k]
        /\ Wanted(which, LabelText(doc.rows[k]))
        /\ IF strict THEN GoodMatches(GetText(doc.rows[k].value)) # <<>>
           ELSE Truthy(first_valid_email(GetText(doc.rows[k].value)))}

\* mail is the address of the first of these rows
FromFirstRow(doc, strict, rs, mail) ==
    \E k \in rs :
        /\ \A j \in rs : k <= j
        /\ IF strict
           THEN /\ Truthy(mail)
                /\ \E m \in {GoodMatches(GetText(doc.rows[k].value))[1]} :
                      SubSeq(m, 1, Len(mail)) = mail
           ELSE mail = first_valid_email(GetText(doc.rows[k].value))

\* the priority chain: "apply to" rows, then "enquiries"/"contact" rows,
\* then the mailto links, then the secondary pages
PriorityChain(doc, strict, out) ==
    \E ap \in {YieldingRows(doc, strict, "apply to")} :
       \E en \in {YieldingRows(doc, strict, "enquiries")} :
          /\ ap # {} => FromFirstRow(doc, strict, ap, out.mail)
          /\ ap = {} /\ en # {} => FromFirstRow(doc, strict, en, out.mail)
          /\ ap = {} /\ en = {} => out.mail = MailtoEmail(doc.mailtos)
          /\ Truthy(out.mail) => out.links = <<>>
          /\ ~Truthy(out.mail) => out.links = SecondaryLinks(doc)

\* C16: the contact address of a detail page is the first valid address
\* without a blocklisted marker of an "apply to" row, wherever the
\* "enquiries"/"contact" rows are; failing that, the first valid one of an
\* "enquiries"/"contact" row; failing that, the address of a mailto link
\* next to an "apply to" text; and secondary pages are asked only when all
\* three gave nothing.
C16_PriorityChain == probe.done => PriorityChain(probe.arg, TRUE, probe.ret)

\* the same chain where the address of a row is what first_valid_email
\* returns for its text
OrderOfSources == probe.done => PriorityChain(probe.arg, FALSE, probe.ret)

(***************************************************************************)
(* The permit pool: listing and detail coroutines of one instance running  *)
(* side by side.  A coroutine asks for a permit, sends its request, reads  *)
(* the status and the body and gives the permit back; _offer_detail then   *)
(* does the same for each of its secondary links.                          *)
(***************************************************************************)
CtorPools == {[max_workers |-> 0, safe_mode |-> FALSE], [max_workers |-> 1, safe_mode |-> FALSE],
              [max_workers |-> 2, safe_mode |-> FALSE], [max_workers |-> 3, safe_mode |-> TRUE],
              [max_workers |-> 0, safe_mode |-> TRUE]}

\* a coroutine before its first request: _extract_urls_from_page, or
\* _offer_detail on a page with the given number of secondary links to ask
Coroutines == {[fn |-> "listing", req |-> "listing", at |-> "start", links |-> 0],
               [fn |-> "detail", req |-> "detail", at |-> "start", links |-> 0],
               [fn |-> "detail", req |-> "detail", at |-> "start", links |-> 2]}

InitPermits ==
    /\ probe = IdleProbe
    /\ NoFetchAll
    /\ NoBot
    /\ \E c \in CtorPools :
          /\ max_workers = c.max_workers
          /\ safe_mode = c.safe_mode
          /\ sem = PoolSize(c.max_workers, c.safe_mode)
    /\ tasks \in SeqsUpTo(Coroutines, MaxTasks)

\* acquire() returns at once
CanAcquire_Always == TRUE

\* a request that asks for a permit while its coroutine holds one
CanAcquire_HoldingOne == sem > 1

\* asyncio.Semaphore.acquire returns only when a permit is free
CanAcquire == sem > 0

\* async with self.sem, s.get(...): the permit is taken and the request sent
Sem_Acquire ==
    \E i \in DOMAIN tasks :
        /\ tasks[i].at = "start"
        /\ CanAcquire
        /\ sem' = sem - 1
        /\ tasks' = [tasks EXCEPT ![i].at = "flight"]
        /\ UNCHANGED <<probe, crawl, bot, max_workers, safe_mode>>

\* where a coroutine goes once its request is over without a body to use:
\* a listing or detail request ends the coroutine, a secondary request is
\* followed by rand_sleep and the next link
AfterFailure(task) ==
    IF task.req = "secondary" THEN [task EXCEPT !.at = "delay"] ELSE [task EXCEPT !.at = "end"]

\* the permit kept by a request that ended in a timeout or an exception
Sem_Release_OnStatusOnly(outcome) ==
    IF outcome \in {"timeout", "exception"} THEN sem ELSE sem + 1

\* leaving the async with block gives the permit back, however it is left
Sem_Release(outcome) == sem + 1

\* the response arrives: status 200 and the body is awaited, or another
\* status, a timeout or an exception and the permit is given back
Response ==
    \E i \in DOMAIN tasks :
        /\ tasks[i].at = "flight"
        /\ \E r \in {"200", "status", "timeout", "exception"} :
              IF r = "200"
              THEN /\ tasks' = [tasks EXCEPT ![i].at = "reading"]
                   /\ sem' = sem
              ELSE /\ tasks' = [tasks EXCEPT ![i] = AfterFailure(tasks[i])]
                   /\ sem' = Sem_Release(r)
        /\ UNCHANGED <<probe, crawl, bot, max_workers, safe_mode>>

\* await r.text() returns or raises, and the permit is given back; a
\* secondary page that gives an address ends the coroutine at once
BodyRead ==
    \E i \in DOMAIN tasks :
        /\ tasks[i].at = "reading"
        /\ \E r \in {"text", "email", "exception"} :
              /\ tasks' = [tasks EXCEPT ![i] =
                              IF r = "exception" THEN AfterFailure(tasks[i])
                              ELSE IF r = "email" /\ tasks[i].req = "secondary"
                              THEN [tasks[i] EXCEPT !.at = "end"]
                              ELSE [tasks[i] EXCEPT !.at = "delay"]]
              /\ sem' = Sem_Release(r)
        /\ UNCHANGED <<probe, crawl, bot, max_workers, safe_mode>>

\* rand_sleep returns: _offer_detail goes on to its next secondary link,
\* if any is left
RandSleep ==
    \E i \in DOMAIN tasks :
        /\ tasks[i].at = "delay"
        /\ tasks' = [tasks EXCEPT ![i] =
                        IF tasks[i].links > 0
                        THEN [tasks[i] EXCEPT !.req = "secondary", !.at = "start",
                                              !.links = tasks[i].links - 1]
                        ELSE [tasks[i] EXCEPT !.at = "end"]]
        /\ UNCHANGED <<probe, crawl, bot, max_workers, safe_mode, sem>>

NextPermits ==
    \/ Sem_Acquire
    \/ Response
    \/ BodyRead
    \/ RandSleep

SpecPermits == InitPermits /\ [][NextPermits]_vars

\* the requests in flight: sent, and the body not yet read
InFlight == {i \in DOMAIN tasks : tasks[i].at \in {"flight", "reading"}}

\* C17: with a permit pool of size W, at most W listing, detail or
\* secondary-page requests are in flight at any moment, whatever the
\* interleaving of the coroutines.
C17_AtMostWInFlight ==
    Cardinality(InFlight) <= PoolSize(max_workers, safe_mode)

\* with a pool of one permit, a detail request is in flight while another
\* detail coroutine waits for the permit and a third is over
C17_Witness ==
    /\ PoolSize(max_workers, safe_mode) = 1
    /\ \E i, j, k \in DOMAIN tasks :
          /\ tasks[i].fn = "detail" /\ tasks[i].at = "reading"
          /\ tasks[j].fn = "detail" /\ tasks[j].at = "start"
          /\ tasks[k].at = "end"

(***************************************************************************)
(* Delays between the requests of a crawl.                                 *)
(***************************************************************************)
\* the path a request of the crawl is on: the listing pages, or the detail
\* pages with their secondary pages
Path(q) ==
    IF q.kind = "listing" THEN "listing"
    ELSE IF q.kind \in {"detail", "secondary"} THEN "detail"
    ELSE "none"

\* C18: after a listing, detail or secondary-page request, whatever its
\* outcome, a randomised delay elapses before the next request on the same
\* path is issued.
C18_DelayBeforeNextRequest ==
    \A k \in 1..(Len(reqs) - 1) :
        Path(reqs[k]) # "none" /\ Path(reqs[k]) = Path(reqs[k + 1]) => reqs[k].then_delay

(***************************************************************************)
(* The listing extractor applied to one response.                          *)
(***************************************************************************)
DesktopRows == {RowPlain, RowGael, RowPrincipal, RowShort, RowNoUrl, RowNoLabel}
MobileRows == {MobPlain, MobGael, MobSna, MobBare}

\* pages with a desktop table, a mobile table, both or neither
ProbeListingDocs ==
    {[desktop |-> d, mobile |-> m] : d \in SeqsUpTo(DesktopRows, MaxRows),
                                     m \in SeqsUpTo(MobileRows, MaxRows)}
    \cup {[desktop |-> d] : d \in SeqsUpTo(DesktopRows, MaxRows)}
    \cup {[mobile |-> m] : m \in SeqsUpTo(MobileRows, MaxRows)}
    \cup {[other |-> TRUE]}

ProbeListingResponses ==
    {[kind |-> "html", status |-> 200, doc |-> d] : d \in ProbeListingDocs}
    \cup {[kind |-> "status", status |-> 500], [kind |-> "timeout"], [kind |-> "exception"]}

InitListing ==
    /\ \E r \in ProbeListingResponses : probe = [arg |-> r, ret |-> None, done |-> FALSE]
    /\ NoCrawl

CallExtractUrls ==
    /\ ~probe.done
    /\ probe' = [probe EXCEPT !.ret = _extract_urls_from_page(probe.arg), !.done = TRUE]
    /\ UNCHANGED <<crawl, pool, bot>>

NextListing == CallExtractUrls

SpecListing == InitListing /\ [][NextListing]_vars

\* the rows of a table of the page, <<>> when the page has no such table
TableRows(r, table) ==
    IF r.kind = "html" /\ table \in DOMAIN r.doc THEN r.doc[table] ELSE <<>>

\* the record comes from a row of the mobile table
FromMobile(rec, r) ==
    \E k \in 1..Len(TableRows(r, "mobile")) :
        /\ "data_href" \in DOMAIN TableRows(r, "mobile")[k]
        /\ rec.url = urljoin(BASE, TableRows(r, "mobile")[k].data_href)

\* some record of the result comes from the mobile table
MobileContributes ==
    \E k \in 1..Len(probe.ret) : FromMobile(probe.ret[k], probe.arg)

\* the desktop table has a row that passes every check of its loop
DesktopEmits ==
    \E k \in 1..Len(TableRows(probe.arg, "desktop")) :
        DesktopOffers(<<TableRows(probe.arg, "desktop")[k]>>) # <<>>

\* C19, as stated: the mobile layout contributes a record only if the
\* desktop table has no row at all.
C19_MobileOnlyIfNoDesktopRows ==
    probe.done /\ MobileContributes => TableRows(probe.arg, "desktop") = <<>>

\* C19, amended: the mobile layout contributes a record only if the desktop
\* table emits no record, be it empty or all its rows skipped; when a
\* desktop row is emitted the result holds desktop records only.
C19_MobileOnlyIfNoDesktopOffers ==
    probe.done /\ MobileContributes => ~DesktopEmits

\* a desktop table whose rows are all skipped, and a record taken from the
\* mobile table
C19_Witness ==
    /\ probe.done
    /\ TableRows(probe.arg, "desktop") # <<>>
    /\ ~DesktopEmits
    /\ MobileContributes

(***************************************************************************)
(* Inline filtering of the listing.                                        *)
(***************************************************************************)
\* the record is of no excluded institution, and its vacancy label, when it
\* has one, passes is_valid_vacancy
PassesInlineFilters(rec) ==
    /\ ~Contains(Lower(Get(rec, "school", <<>>)), S_gaelscoil)
    /\ Truthy(Get(rec, "vacancy", <<>>)) => is_valid_vacancy(rec.vacancy)

\* C20: no record returned by the listing extractor, and none collected or
\* returned by fetch_all, has a school name containing "gaelscoil" in any
\* case, or a non-empty vacancy label that is_valid_vacancy rejects.
C20_InlineFiltering ==
    /\ \A k \in 1..Len(basic) : PassesInlineFilters(basic[k])
    /\ \A k \in 1..Len(detailed_offers) : PassesInlineFilters(detailed_offers[k])
    /\ \A k \in 1..Len(ret) : PassesInlineFilters(ret[k])

\* a returned crawl over a page whose gaelscoil row, between two rows that
\* are kept, gave no record
C20_Witness ==
    /\ pc = "done"
    /\ ret # <<>>
    /\ \E k \in 1..(Len(basic) - 1) :
          /\ basic[k].url = urljoin(BASE, RowAnchor.link_href)
          /\ basic[k + 1].url = urljoin(BASE, RowNoLabel.data_href)

(***************************************************************************)
(* The description of one detail page.                                     *)
(***************************************************************************)
RECURSIVE Repeat(_, _)
Repeat(s, n) == IF n = 0 THEN <<>> ELSE s \o Repeat(s, n - 1)

D_Short == <<"S","e","e"," ","t","h","e"," ","a","t","t","a","c","h","e","d"," ","f","i","l","e",".">>
D_VeryLong == Repeat(T_LongDescription, 13)
P_Invited == <<"A","p","p","l","i","c","a","t","i","o","n","s"," ","a","r","e"," ","i","n","v","i","t","e","d"," ","f","o","r"," ","a"," ","f","i","x","e","d"," ","t","e","r","m"," ","p","o","s","t",".">>
P_Classes == <<"T","h","e"," ","s","c","h","o","o","l"," ","h","a","s"," ","t","w","e","l","v","e"," ","m","a","i","n","s","t","r","e","a","m"," ","c","l","a","s","s","e","s",".">>
P_Shortlisting == <<"S","h","o","r","t","l","i","s","t","i","n","g"," ","m","a","y"," ","a","p","p","l","y"," ","t","o"," ","t","h","i","s"," ","c","o","m","p","e","t","i","t","i","o","n",".">>
P_Vetting == <<"G","a","r","d","a"," ","v","e","t","t","i","n","g"," ","i","s"," ","r","e","q","u","i","r","e","d"," ","f","o","r"," ","t","h","e"," ","p","o","s","i","t","i","o","n",".">>
P_Cookie == <<"W","e"," ","u","s","e"," ","a"," ","c","o","o","k","i","e"," ","t","o"," ","r","e","m","e","m","b","e","r"," ","y","o","u","r"," ","p","r","e","f","e","r","e","n","c","e","s",".">>
P_ApplyNow == <<"A","p","p","l","y"," ","n","o","w">>

\* what a selector selects: nothing, an element without text, with a short
\* text, with a text of more than 50 characters, of more than 800
ContainerTexts == {None, <<>>, D_Short, T_LongDescription, D_VeryLong}

\* the paragraphs of the main content block, None for a page without one
MainBlocks == {None, <<>>, <<P_ApplyNow, P_Cookie>>, <<P_Invited>>,
               <<P_Cookie, P_Invited, P_ApplyNow, P_Classes, P_Shortlisting, P_Vetting>>,
               <<D_VeryLong, P_Invited>>}

InitDescription ==
    /\ \E cs \in SeqsUpTo(ContainerTexts, MaxRows), main \in MainBlocks :
          probe = [arg |-> [containers |-> cs, main |-> main], ret |-> None, done |-> FALSE]
    /\ NoCrawl

\* the part of _offer_detail that settles the description
CallOfferDetailDescription ==
    /\ ~probe.done
    /\ probe' = [probe EXCEPT !.ret = Description(probe.arg.containers, probe.arg.main),
                              !.done = TRUE]
    /\ UNCHANGED <<crawl, pool, bot>>

NextDescription == CallOfferDetailDescription

SpecDescription == InitDescription /\ [][NextDescription]_vars

\* the containers with more than 50 characters of text, in selector order
LongContainers(cs) == SelectSeq(cs, LAMBDA c : c # None /\ Len(c) > 50)

\* C21: the first selector container with more than 50 characters of text
\* gives the description; when no container has more than 50 characters,
\* also when one was matched with a short text, the description is that of
\* the first 3 substantial paragraphs of the main content; the description
\* stored is never longer than 800 characters and the ellipsis.
C21_DescriptionFallbackChain ==
    probe.done =>
       /\ LongContainers(probe.arg.containers) # <<>> =>
              probe.ret = Truncate(LongContainers(probe.arg.containers)[1], 800)
       /\ LongContainers(probe.arg.containers) = <<>> =>
              probe.ret = MainDescription(probe.arg.main)
       /\ probe.ret # None => Len(probe.ret) <= 800 + Len(S_ellipsis)

(***************************************************************************)
(* The field extractors of _offer_detail and the exceptions they raise.    *)
(* The contact address is settled in the body of the function's try; the  *)
(* other fields are settled one after the other inside one inner try.     *)
(***************************************************************************)
\* the extractors of the inner try, in the order of the code
AdditionalExtractors == <<"description", "position_info", "requirements", "dates",
                          "contact_info", "roll_number">>
Extractors == {"email"} \cup {AdditionalExtractors[k] : k \in 1..Len(AdditionalExtractors)}

\* what an extractor does on a page: it finds its field, finds nothing, or
\* raises
ExtractorOutcomes == {"found", "nothing", "raises"}

\* the fields written by the inner try from its extractor k on: the first
\* extractor that raises ends the try
RECURSIVE AdditionalFields(_, _)
AdditionalFields(outcome, k) ==
    IF k > Len(AdditionalExtractors) THEN {}
    ELSE IF outcome[AdditionalExtractors[k]] = "raises" THEN {}
    ELSE (IF outcome[AdditionalExtractors[k]] = "found" THEN {AdditionalExtractors[k]} ELSE {})
         \cup AdditionalFields(outcome, k + 1)

\* whether _offer_detail returns a record, and the fields the record holds
ExtractedFields(outcome) ==
    IF outcome["email"] = "raises" THEN [returned |-> FALSE, fields |-> {}]
    ELSE [returned |-> TRUE,
          fields |-> (IF outcome["email"] = "found" THEN {"email"} ELSE {})
                     \cup AdditionalFields(outcome, 1)]

InitExtractors ==
    /\ \E outcome \in [Extractors -> ExtractorOutcomes] :
          probe = [arg |-> outcome, ret |-> None, done |-> FALSE]
    /\ NoCrawl

\* _offer_detail on a page whose response was read
CallOfferDetailExtractors ==
    /\ ~probe.done
    /\ probe' = [probe EXCEPT !.ret = ExtractedFields(probe.arg), !.done = TRUE]
    /\ UNCHANGED <<crawl, pool, bot>>

NextExtractors == CallOfferDetailExtractors

SpecExtractors == InitExtractors /\ [][NextExtractors]_vars

\* C22: when the extraction of one field raises, the other extractors
\* still run and the record is returned with every field they found.
C22_ExtractorsIndependent ==
    probe.done =>
       /\ probe.ret.returned
       /\ \A e \in Extractors : probe.arg[e] = "found" => e \in probe.ret.fields

(***************************************************************************)
(* The roll number: the regex cascade of _offer_detail over the text of    *)
(* the page, its table and key-value fallbacks, and the cleaning done by   *)
(* prepare_offer_data_for_application_form.                                *)
(***************************************************************************)
S_roll == <<"r","o","l","l">>
S_number == <<"n","u","m","b","e","r">>
S_no == <<"n","o">>
S_is == <<"i","s">>
S_Apply == <<"A","p","p","l","y">>

\* s holds w at position i
StartsWithAt(s, i, w) == i >= 1 /\ i + Len(w) - 1 <= Len(s) /\ SubSeq(s, i, i + Len(w) - 1) = w

\* \s* from position i: the position after the white space
SkipSpaces(s, i) ==
    CHOOSE j \in i..(Len(s) + 1) :
        /\ \A k \in i..(j - 1) : s[k] \in Spaces
        /\ (j = Len(s) + 1 \/ s[j] \notin Spaces)

\* [\d\w]+ from position i: the last position of the run of word characters
WordRunEnd(s, i) ==
    CHOOSE j \in (i - 1)..Len(s) :
        /\ \A k \in i..j : IsWordCh(s[k])
        /\ (j = Len(s) \/ ~IsWordCh(s[j + 1]))

\* the group of \s*([\d\w]+) from position k, None when it does not match
WordGroup(s, k) ==
    Only({IF WordAt(s, m) THEN SubSeq(s, m, WordRunEnd(s, m)) ELSE None :
          m \in {SkipSpaces(s, k)}})

\* the group of [:.]?\s*([\d\w]+) from position k
RollTail(s, k) == WordGroup(s, IF k <= Len(s) /\ s[k] \in {":", "."} THEN k + 1 ELSE k)

\* roll\s*(?:number|no)[:.]?\s*([\d\w]+) matched at position i, ignoring case:
\* "no" is tried when "number" leads nowhere
RollAt(s, i) ==
    IF ~StartsWithAt(Lower(s), i, S_roll) THEN None
    ELSE Only({IF StartsWithAt(Lower(s), j, S_number) /\ RollTail(s, j + 6) # None
               THEN RollTail(s, j + 6)
               ELSE IF StartsWithAt(Lower(s), j, S_no) THEN RollTail(s, j + 2)
               ELSE None : j \in {SkipSpaces(s, i + 4)}})

\* roll\s*(?:number|no)\s*(?:is|=)\s*([\d\w]+) matched at position i
RollIsAt(s, i) ==
    IF ~StartsWithAt(Lower(s), i, S_roll) THEN None
    ELSE Only({IF StartsWithAt(Lower(s), m, S_is) THEN WordGroup(s, m + 2)
               ELSE IF StartsWithAt(s, m, <<"=">>) THEN WordGroup(s, m + 1)
               ELSE None :
               m \in {SkipSpaces(s, IF StartsWithAt(Lower(s), j, S_number) THEN j + 6
                                    ELSE IF StartsWithAt(Lower(s), j, S_no) THEN j + 2
                                    ELSE Len(s) + 1) : j \in {SkipSpaces(s, i + 4)}}})

\* (\d{5}[A-Z]) matched at position i, ignoring case
RollCodeAt(s, i) ==
    IF /\ i + 5 <= Len(s)
       /\ \A k \in i..(i + 4) : s[k] \in Digits
       /\ s[i + 5] \in Letters
    THEN SubSeq(s, i, i + 5) ELSE None

\* re.search of the patterns in the order of the list: the patterns that
\* require the punctuation match only where the first one does
RollSearch(full_text) ==
    IF \E i \in 1..Len(full_text) : RollAt(full_text, i) # None
    THEN RollAt(full_text, CHOOSE i \in 1..Len(full_text) :
                    /\ RollAt(full_text, i) # None
                    /\ \A h \in 1..(i - 1) : RollAt(full_text, h) = None)
    ELSE IF \E i \in 1..Len(full_text) : RollIsAt(full_text, i) # None
    THEN RollIsAt(full_text, CHOOSE i \in 1..Len(full_text) :
                    /\ RollIsAt(full_text, i) # None
                    /\ \A h \in 1..(i - 1) : RollIsAt(full_text, h) = None)
    ELSE IF \E i \in 1..Len(full_text) : RollCodeAt(full_text, i) # None
    THEN RollCodeAt(full_text, CHOOSE i \in 1..Len(full_text) :
                    /\ RollCodeAt(full_text, i) # None
                    /\ \A h \in 1..(i - 1) : RollCodeAt(full_text, h) = None)
    ELSE None

\* a table row yields its second cell when its first cell names the roll number
RollRow(row) ==
    /\ Contains(Lower(Strip(row[1])), S_roll)
    /\ (Contains(Lower(Strip(row[1])), S_number) \/ Contains(Lower(Strip(row[1])), S_no))
    /\ Strip(row[2]) # <<>>

RollFromTable(rows) ==
    IF \E k \in 1..Len(rows) : RollRow(rows[k])
    THEN Strip(rows[CHOOSE k \in 1..Len(rows) :
                      RollRow(rows[k]) /\ \A h \in 1..(k - 1) : ~RollRow(rows[h])][2])
    ELSE None

\* [:\s]* from position i: the position after the colons and the white space
SkipColons(s, i) ==
    CHOOSE j \in i..(Len(s) + 1) :
        /\ \A k \in i..(j - 1) : s[k] \in Spaces \cup {":"}
        /\ (j = Len(s) + 1 \/ s[j] \notin Spaces \cup {":"})

\* the group of [:\s]*([^\s]+) from position k, None when it does not match
NonSpaceGroup(s, k) ==
    Only({IF m > Len(s) THEN None
          ELSE SubSeq(s, m, CHOOSE e \in m..Len(s) :
                               /\ \A h \in m..e : s[h] \notin Spaces
                               /\ (e = Len(s) \/ s[e + 1] \in Spaces)) :
          m \in {SkipColons(s, k)}})

\* roll\s*(?:number|no)[:\s]*([^\s]+) matched at position i of a div's text
RollDivAt(s, i) ==
    IF ~StartsWithAt(s, i, S_roll) THEN None
    ELSE Only({IF StartsWithAt(s, j, S_number) THEN NonSpaceGroup(s, j + 6)
               ELSE IF StartsWithAt(s, j, S_no) THEN NonSpaceGroup(s, j + 2)
               ELSE None : j \in {SkipSpaces(s, i + 4)}})

RollFromDiv(div) ==
    IF div # None /\ \E i \in 1..Len(div) : RollDivAt(Lower(div), i) # None
    THEN RollDivAt(Lower(div), CHOOSE i \in 1..Len(div) :
                    /\ RollDivAt(Lower(div), i) # None
                    /\ \A h \in 1..(i - 1) : RollDivAt(Lower(div), h) = None)
    ELSE None

\* soup.get_text() of a page made of a text, a table and a key-value div
FullText(doc) ==
    doc.text \o <<"\n">>
    \o Join([k \in 1..Len(doc.rows) |-> doc.rows[k][1] \o <<"\n">> \o doc.rows[k][2]], <<"\n">>)
    \o <<"\n">> \o (IF doc.div = None THEN <<>> ELSE doc.div)

\* the roll number _offer_detail stores in the record, None when it stores none
roll_number(doc) ==
    Only({IF Truthy(re) THEN re
          ELSE IF Truthy(RollFromTable(doc.rows)) THEN RollFromTable(doc.rows)
          ELSE IF Truthy(RollFromDiv(doc.div)) THEN RollFromDiv(doc.div)
          ELSE None : re \in {Only({IF m = None THEN None ELSE Strip(m) :
                                      m \in {RollSearch(FullText(doc))}})}})

\* the cleaning of prepare_offer_data_for_application_form
clean_roll_number(roll) ==
    IF Truthy(roll) /\ Contains(roll, S_Apply) THEN Strip(SplitHead(roll, S_Apply)) ELSE roll

R_RollNumber == <<"R","o","l","l"," ","N","u","m","b","e","r",":"," ">>
R_RollNoEq == <<"R","o","l","l"," ","N","o"," ","="," ">>
R_Code == <<"1","2","3","4","5","6","T">>
R_Short == <<"1","2","3","4","A">>

RollChunks == {R_RollNumber, R_RollNoEq, R_Code, S_Apply, <<" ">>}
RollTexts == {Join(cs, <<>>) : cs \in SeqsUpTo(RollChunks, MaxChunks)}
RollTables == {<<>>, << <<<<"E","n","r","o","l","l","e","d"," ","n","u","m","b","e","r">>, R_Short>> >>, << <<<<"R","o","l","l"," ","N","o">>, <<>> >> >>}
RollDivs == {None, <<"R","o","l","l"," ","n","o",":"," ","#","7","7">>, <<"S","c","h","o","o","l"," ","r","o","l","l",":"," ","9">>}

InitRoll ==
    /\ \E text \in RollTexts, rows \in RollTables, div \in RollDivs :
          probe = [arg |-> [text |-> text, rows |-> rows, div |-> div],
                   ret |-> None, done |-> FALSE]
    /\ NoCrawl

\* _offer_detail on a page whose response was read: the roll number of the
\* record it returns
CallOfferDetailRoll ==
    /\ ~probe.done
    /\ probe' = [probe EXCEPT !.ret = roll_number(probe.arg), !.done = TRUE]
    /\ UNCHANGED <<crawl, pool, bot>>

NextRoll == CallOfferDetailRoll

SpecRoll == InitRoll /\ [][NextRoll]_vars

\* C23: the roll number of a returned record is sanitized: it is the bare
\* code, which the sanitization leaves unchanged.
C23_RollNumberSanitized ==
    probe.done => probe.ret = clean_roll_number(probe.ret)

\* C24: within one fetch_all run the stored cookies and the logged-in flag
\* are written at most once, by the login step, before the pagination request
\* and before any listing, detail or secondary request of the run; no later
\* step modifies them.
C24_SessionWrittenOnceByLogin ==
    [][/\ (pc # "idle" /\ session' # session) =>
             /\ pc = "login"
             /\ pc' # "login"
             /\ \A k \in 1..Len(reqs') : reqs'[k].kind = "login"
       /\ pc' = "login" => pc = "idle"]_vars

\* a returned crawl whose login step stored the session and whose detail
\* request carried it
C24_Witness ==
    /\ pc = "done"
    /\ is_logged_in
    /\ cookies = SessionA
    /\ \E k \in 1..Len(reqs) :
          /\ reqs[k].kind = "login"
          /\ reqs[k].via = "fetch_all"
          /\ reqs[k].status = 302
          /\ \E h \in (k + 1)..Len(reqs) : reqs[h].kind = "detail" /\ reqs[h].cookies = SessionA

(***************************************************************************)
(* The bot: send_application_email_for_offer.  An offer is a record whose  *)
(* absent keys are absent fields; the users are the values of user_data in *)
(* the order of the dict; a chat id of 0 stands for a user without one.    *)
(***************************************************************************)
M_test == <<"t","e","s","t","@","e","x","a","m","p","l","e",".","c","o","m">>
M_Test_padded == <<" ","T","e","s","t","@","E","x","a","m","p","l","e",".","c","o","m"," ">>
M_other == <<"o","t","h","e","r","@","m","a","i","l",".","i","e">>
M_school == <<"o","f","f","i","c","e","@","s","c","h","o","o","l",".","i","e">>
VACANCY_URL == "https://www.educationposts.ie/post/view/239126"
APPLY_URL == "https://www.educationposts.ie/post/apply/239126"

ApplyOffers ==
    {[id |-> "239126", email |-> M_school],
     [id |-> "239126", email |-> M_school, url |-> VACANCY_URL],
     [id |-> "239126", email |-> M_school, apply_link |-> ""],
     [id |-> "239126", apply_link |-> APPLY_URL],
     [id |-> "239126", apply_link |-> APPLY_URL, url |-> VACANCY_URL],
     [id |-> "239126", apply_link |-> APPLY_URL, url |-> APPLY_URL]}

BotUsers ==
    {[email |-> M_Test_padded, chat_id |-> 123456, test_mode |-> FALSE],
     [email |-> M_test, chat_id |-> 0, test_mode |-> TRUE],
     [email |-> None, chat_id |-> 7, test_mode |-> FALSE]}

\* u.email and u.email.strip().lower() == from_email.strip().lower()
SameEmail(u, from_email) ==
    Truthy(u.email) /\ Lower(Strip(u.email)) = Lower(Strip(from_email))

\* the user found by the loop over user_data.values(): its index, 0 for None
FindUser(users, from_email) ==
    IF \E k \in 1..Len(users) : SameEmail(users[k], from_email)
    THEN CHOOSE k \in 1..Len(users) :
            /\ SameEmail(users[k], from_email)
            /\ \A h \in 1..(k - 1) : ~SameEmail(users[h], from_email)
    ELSE 0

\* what a call leaves: whether it raised, the value it returned, the emails
\* sent, the applications recorded and the chat messages scheduled
Outcome(raised, value, emails, applications, messages) ==
    [raised |-> raised, value |-> value, emails |-> emails,
     applications |-> applications, messages |-> messages]

\* the branch for an offer with an application link: the notice is built
\* from offer['url'] and handed to the event loop as a task
ManualNotice(offer, users, u) ==
    IF u # 0 /\ users[u].chat_id # 0
    THEN IF "url" \in DOMAIN offer
         THEN Outcome(FALSE, FALSE, <<>>, <<>>,
                      <<[chat_id |-> users[u].chat_id, text |-> <<"manual", offer.url>>]>>)
         ELSE Outcome(TRUE, FALSE, <<>>, <<>>, <<>>)
    ELSE Outcome(FALSE, FALSE, <<>>, <<>>, <<>>)

\* the branch that sends the application: form tells whether the form was
\* generated, smtp whether the SMTP exchange succeeded
SendApplication(offer, users, u, from_email, form, smtp) ==
    IF u = 0 \/ ~form THEN Outcome(FALSE, FALSE, <<>>, <<>>, <<>>)
    ELSE IF ~smtp THEN Outcome(FALSE, FALSE, <<>>, <<>>, <<>>)
    ELSE Outcome(FALSE, TRUE,
                 <<[from |-> from_email,
                    to |-> IF users[u].test_mode THEN "test address" ELSE Get(offer, "email", None)]>>,
                 IF users[u].test_mode THEN <<>>
                 ELSE <<[user |-> users[u].email, offer_id |-> offer.id]>>,
                 <<>>)

send_application_email_for_offer(offer, users, from_email, form, smtp) ==
    IF "apply_link" \in DOMAIN offer /\ offer.apply_link # ""
    THEN ManualNotice(offer, users, FindUser(users, from_email))
    ELSE SendApplication(offer, users, FindUser(users, from_email), from_email, form, smtp)

InitApply ==
    /\ \E offer \in ApplyOffers, users \in SeqsUpTo(BotUsers, MaxUsers),
          from_email \in {M_test, M_other}, form \in BOOLEAN, smtp \in BOOLEAN :
          probe = [arg |-> [offer |-> offer, users |-> users, from_email |-> from_email,
                            form |-> form, smtp |-> smtp],
                   ret |-> None, done |-> FALSE]
    /\ NoCrawl

CallSendApplicationEmail ==
    /\ ~probe.done
    /\ probe' = [probe EXCEPT
                    !.ret = send_application_email_for_offer(probe.arg.offer, probe.arg.users,
                               probe.arg.from_email, probe.arg.form, probe.arg.smtp),
                    !.done = TRUE]
    /\ UNCHANGED <<crawl, pool, bot>>

NextApply == CallSendApplicationEmail

SpecApply == InitApply /\ [][NextApply]_vars

\* C25: for an offer that carries an apply_link the call returns False,
\* sends no email and records no application, and the user whose email
\* matches from_email (and who has a chat) gets a chat message whose text
\* contains the offer's apply_link, whether or not the offer has a url.
C25_ApplyLinkNotice ==
    (probe.done /\ "apply_link" \in DOMAIN probe.arg.offer /\ probe.arg.offer.apply_link # "") =>
       /\ ~probe.ret.raised
       /\ probe.ret.value = FALSE
       /\ probe.ret.emails = <<>>
       /\ probe.ret.applications = <<>>
       /\ \A u \in {FindUser(probe.arg.users, probe.arg.from_email)} :
             (u # 0 /\ probe.arg.users[u].chat_id # 0) =>
                \E k \in 1..Len(probe.ret.messages) :
                   /\ probe.ret.messages[k].chat_id = probe.arg.users[u].chat_id
                   /\ \E p \in 1..Len(probe.ret.messages[k].text) :
                         probe.ret.messages[k].text[p] = probe.arg.offer.apply_link

\* the login step of the run failed
LoginStepFailed ==
    \E k \in 1..Len(reqs) :
       reqs[k].kind = "login" /\ reqs[k].via = "fetch_all" /\ reqs[k].status # 302

\* C26: with credentials and login_first, a failed login makes fetch_all
\* return the empty list without any pagination, listing, detail or secondary
\* request: the result is that of a crawl that found nothing.
C26_FailedLoginReturnsEmpty ==
    LoginStepFailed =>
       /\ pc = "done"
       /\ ret = <<>>
       /\ detailed_offers = <<>>
       /\ \A k \in 1..Len(reqs) : reqs[k].kind = "login"

\* a run whose login was answered with a 301, and one that raised
C26_Witness ==
    /\ pc = "done"
    /\ login_first
    /\ HasCredentials
    /\ ~login_ret
    /\ reqs # <<>>
    /\ reqs[Len(reqs)].kind = "login"
    /\ reqs[Len(reqs)].via = "fetch_all"
    /\ reqs[Len(reqs)].status = 301

\* a permit is taken only by a coroutine that holds none
TakenByIdleCoroutine ==
    sem' < sem =>
       /\ sem' = sem - 1
       /\ \E i \in DOMAIN tasks :
             /\ tasks[i].at = "start"
             /\ tasks'[i].at = "flight"
             /\ \A j \in DOMAIN tasks \ {i} : tasks'[j] = tasks[j]

\* C27: permits are conserved: the free permits and the requests in flight
\* add up to the configured pool whatever the outcome of each request, no
\* coroutine takes a second permit while holding one, and when every
\* coroutine is over the pool holds its configured number of permits.
C27_PermitsConserved ==
    /\ [](sem + Cardinality(InFlight) = PoolSize(max_workers, safe_mode))
    /\ []((\A i \in DOMAIN tasks : tasks[i].at = "end") => sem = PoolSize(max_workers, safe_mode))
    /\ [][TakenByIdleCoroutine]_vars

\* every coroutine is over, one of them after a secondary request, and the
\* pool of two permits is full again
C27_Witness ==
    /\ Len(tasks) = MaxTasks
    /\ \A i \in DOMAIN tasks : tasks[i].at = "end"
    /\ \E i \in DOMAIN tasks : tasks[i].req = "secondary" /\ tasks[i].links = 0
    /\ \E i \in DOMAIN tasks : tasks[i].fn = "listing"
    /\ PoolSize(max_workers, safe_mode) = 2
    /\ sem = 2

\* C28: in safe mode the pool has exactly one permit whatever max_workers
\* was given at construction, so that one request at a time is in flight.
C28_SafeModeOnePermit ==
    safe_mode => sem + Cardinality(InFlight) = 1

(***************************************************************************)
(* The crawl with its permit pool.  fetch_all awaits its requests one     *)
(* after the other: a listing, detail or secondary request starts when a  *)
(* permit is free and has given the permit back when it is over; the      *)
(* login and pagination requests take none.  A request that was sent      *)
(* completes, fails or times out and a sleep ends, so a step of the       *)
(* started crawl that can be taken is eventually taken.                   *)
(***************************************************************************)
ReturnsPools == {c \in CtorPools : c.safe_mode \/ c.max_workers = 2}

InitReturns ==
    /\ InitScraper
    /\ ctor.username # None
    /\ \E c \in ReturnsPools :
          /\ max_workers = c.max_workers
          /\ safe_mode = c.safe_mode
          /\ sem = PoolSize(c.max_workers, c.safe_mode)
    /\ tasks = <<>>

Permit_Listing == CanAcquire /\ FetchAll_Listing
Permit_Detail == CanAcquire /\ FetchAll_Detail
Permit_Secondary == CanAcquire /\ FetchAll_Secondary

NextReturns ==
    \/ FetchAll
    \/ FetchAll_Login
    \/ FetchAll_GetPages
    \/ Permit_Listing
    \/ Permit_Detail
    \/ Permit_Secondary

SpecReturns ==
    /\ InitReturns
    /\ [][NextReturns]_vars
    /\ WF_vars(FetchAll_Login)
    /\ WF_vars(FetchAll_GetPages)
    /\ WF_vars(Permit_Listing)
    /\ WF_vars(Permit_Detail)
    /\ WF_vars(Permit_Secondary)

\* C29: with a pool of at least one permit, in safe and in normal mode, a
\* started fetch_all eventually returns, whatever the outcomes of its
\* requests, the page count and the records.
C29_FetchAllReturns ==
    (pc # "idle" /\ PoolSize(max_workers, safe_mode) >= 1) ~> (pc = "done")

\* a safe-mode crawl with one permit that returned a record after a
\* secondary request
C29_Witness ==
    /\ pc = "done"
    /\ safe_mode
    /\ sem = 1
    /\ ret # <<>>
    /\ \E k \in 1..Len(reqs) : reqs[k].kind = "secondary"

\* the crawl of a safe-mode scraper built with max_workers = 0 stands at
\* its first listing request
WaitsWithoutPermit ==
    /\ pc = "listing"
    /\ sem = 0
    /\ ~ENABLED NextReturns

(***************************************************************************)
(* The bot (src/src/bots/telegram_bot.py): run_scraping_process called by  *)
(* the handlers of several users on one bot.  An invocation runs from one  *)
(* await to the next in a step; user_id is a registered user, as the only  *)
(* caller has checked.                                                     *)
(***************************************************************************)
\* the ways the body of the try ends
RunOutcomes == {"no_offers", "all_applied", "exception", "completed"}

\* an early return that leaves without the finally clause
Finally_OnFallThrough(outcome) ==
    IF outcome \in {"no_offers", "all_applied"} THEN is_scraping ELSE FALSE

\* the finally clause: self.is_scraping = False, however the try was left
Finally(outcome) == FALSE

InitBot ==
    /\ probe = IdleProbe
    /\ NoTasks
    /\ NoFetchAll
    /\ is_scraping = FALSE
    /\ runs \in SeqsUpTo({[user_id |-> u, at |-> "called", outcome |-> "none"] : u \in 1..MaxUsers},
                         MaxTasks)

\* the call: with the flag set the caller is told to wait, otherwise the
\* flag is set and the try block entered, up to its first await
RunScraping_Enter ==
    \E i \in DOMAIN runs :
        /\ runs[i].at = "called"
        /\ IF is_scraping
           THEN /\ runs' = [runs EXCEPT ![i].at = "busy"]
                /\ is_scraping' = is_scraping
           ELSE /\ runs' = [runs EXCEPT ![i].at = "running"]
                /\ is_scraping' = TRUE
        /\ UNCHANGED <<probe, crawl, pool>>

\* the notice to wait was sent, or sending it raised: the call is over
RunScraping_Busy ==
    \E i \in DOMAIN runs :
        /\ runs[i].at = "busy"
        /\ runs' = [runs EXCEPT ![i].at = "returned", ![i].outcome = "busy"]
        /\ UNCHANGED <<probe, crawl, pool, is_scraping>>

\* the awaits of the try block: the crawl found nothing, every offer was
\* applied to already, something raised, or the applications were sent;
\* what is left is the last message of that path
RunScraping_Crawl ==
    \E i \in DOMAIN runs :
        /\ runs[i].at = "running"
        /\ \E o \in RunOutcomes : runs' = [runs EXCEPT ![i].at = "ending", ![i].outcome = o]
        /\ UNCHANGED <<probe, crawl, pool, is_scraping>>

\* the last message was sent, or sending it raised: the try is left
RunScraping_End ==
    \E i \in DOMAIN runs :
        /\ runs[i].at = "ending"
        /\ runs' = [runs EXCEPT ![i].at = "returned"]
        /\ is_scraping' = Finally(runs[i].outcome)
        /\ UNCHANGED <<probe, crawl, pool>>

NextBot ==
    \/ RunScraping_Enter
    \/ RunScraping_Busy
    \/ RunScraping_Crawl
    \/ RunScraping_End

SpecBot == InitBot /\ [][NextBot]_vars

\* the invocations between setting the flag and the finally clause
ActiveRuns == {i \in DOMAIN runs : runs[i].at \in {"running", "ending"}}

\* an invocation that found the flag set does not touch it and starts no crawl
BusyLeavesFlag ==
    \A i \in DOMAIN runs :
        /\ (runs[i].at = "called" /\ is_scraping /\ runs'[i] # runs[i]) =>
               runs'[i].at = "busy" /\ is_scraping' = is_scraping
        /\ (runs[i].at = "busy" /\ runs'[i] # runs[i]) =>
               runs'[i].at = "returned" /\ is_scraping' = is_scraping

\* C30: is_scraping is a lock around run_scraping_process: at most one
\* run is active at any time, the flag is set exactly while one is, an
\* invocation that finds it set starts no crawl and leaves it set, and when
\* the active run ends, on any path, the flag is false again.
C30_FlagIsLock ==
    /\ [](Cardinality(ActiveRuns) <= 1)
    /\ [](is_scraping <=> ActiveRuns # {})
    /\ [][BusyLeavesFlag]_vars

\* a second user was told to wait while the first run was active, the
\* first run ended on the no-offers path, and a third call then ran
C30_Witness ==
    /\ ~is_scraping
    /\ \E i, j, k \in DOMAIN runs :
          /\ runs[i].at = "returned" /\ runs[i].outcome = "no_offers"
          /\ runs[j].at = "returned" /\ runs[j].outcome = "busy"
          /\ runs[j].user_id # runs[i].user_id
          /\ runs[k].at = "returned" /\ runs[k].outcome = "exception"

====
